---- MODULE Spec2Model ----
(***************************************************************************)
(* Model of the ChartSense table-extraction pipeline:                      *)
(*   analyzer/utils/huggingface_client.py  (HuggingFaceClient)             *)
(*   analyzer/utils/table_extractor.py     (TableExtractor)                *)
(*   analyzer/utils/pdf_processor.py       (PDFProcessor)                  *)
(*                                                                         *)
(* Python values are tagged records [t |-> type, v |-> value]; a dict is   *)
(* a function from key strings to Python values.  Floats are scaled by     *)
(* 100 (0.75 is 75, 0.3 is 30); sleeps are in tenths of a second.          *)
(***************************************************************************)
EXTENDS Integers, Sequences, FiniteSets, TLC

(***************************************************************************)
(* Bounds of the model.                                                    *)
(***************************************************************************)
MaxPages == 2

(***************************************************************************)
(* Python values.                                                          *)
(***************************************************************************)
PyNone == [t |-> "None"]
PyNum(n) == [t |-> "num", v |-> n]
PyStr(s) == [t |-> "str", v |-> s]
PyBool(b) == [t |-> "bool", v |-> b]
PyList(s) == [t |-> "list", v |-> s]
PyDict(d) == [t |-> "dict", v |-> d]

IsList(x) == x.t = "list"
IsDict(x) == x.t = "dict"
HasKey(d, k) == k \in DOMAIN d.v
\* dict.get(k, default)
Get(d, k, default) == IF HasKey(d, k) THEN d.v[k] ELSE default
\* bool(x) as used by "if x:" and "if not x:"
Truthy(x) ==
    CASE x.t = "None" -> FALSE
      [] x.t = "list" -> Len(x.v) > 0
      [] x.t = "dict" -> DOMAIN x.v # {}
      [] x.t = "num" -> x.v # 0
      [] x.t = "str" -> x.v # ""
      [] x.t = "bool" -> x.v
BoxList(a, b, c, d) == PyList(<<PyNum(a), PyNum(b), PyNum(c), PyNum(d)>>)

(***************************************************************************)
(* Labels.  Strings are atomic, so "'table' in label.lower()" is a table   *)
(* over the labels the model uses.                                         *)
(***************************************************************************)
Labels == {"table", "Table", "table rotated", "figure"}
HasTableSubstring(label) == label \in {"table", "Table", "table rotated"}

(***************************************************************************)
(* The sample data set both classes inline.                                *)
(***************************************************************************)
sample_data == <<
    <<"Disability Category", "Participants", "Ballots Completed",
      "Ballots Incomplete/Terminated", "Results Accuracy", "Time to complete">>,
    <<"Blind", "5", "1", "4", "34.5%, n=1", "1199 sec, n=1">>,
    <<"Low Vision", "5", "2", "3", "98.3% n=2 (97.7%, n=3)",
      "1716 sec, n=3 (1934 sec, n=2)">>,
    <<"Dexterity", "5", "4", "1", "98.3%, n=4", "1672.1 sec, n=4">>,
    <<"Mobility", "3", "3", "0", "95.4%, n=3", "1416 sec, n=3">> >>
column_names == sample_data[1]

\* enumerate(rows) x enumerate(row): the cells in row-major order
RECURSIVE FlattenRows(_)
FlattenRows(rows) ==
    IF rows = <<>> THEN <<>> ELSE Head(rows) \o FlattenRows(Tail(rows))

(***************************************************************************)
(* TableExtractor: the placeholder table (table_extractor.py 311-365).     *)
(***************************************************************************)
_create_sample_table_rows ==
    PyList([i \in 1..5 |-> PyDict([
        row_id |-> PyNum(i - 1),
        bbox |-> BoxList(50, 50 + (i - 1) * 30, 550, 80 + (i - 1) * 30),
        confidence |-> PyNum(80),
        type |-> PyStr(IF i = 1 THEN "header" ELSE "data")])])

sample_column_bboxes == <<
    <<50, 50, 150, 200>>, <<150, 50, 200, 200>>, <<200, 50, 250, 200>>,
    <<250, 50, 400, 200>>, <<400, 50, 500, 200>>, <<500, 50, 550, 200>> >>

_create_sample_table_columns ==
    PyList([i \in 1..6 |-> PyDict([
        column_id |-> PyNum(i - 1),
        name |-> PyStr(column_names[i]),
        bbox |-> BoxList(sample_column_bboxes[i][1], sample_column_bboxes[i][2],
                         sample_column_bboxes[i][3], sample_column_bboxes[i][4]),
        confidence |-> PyNum(80)])])

column_widths == <<100, 50, 50, 150, 100, 100>>
row_height == 30
start_x == 50
start_y == 50

\* x_offset before column col_idx (0-based) of a row: start_x plus the widths
\* already added by "x_offset += width"
RECURSIVE XOffset(_)
XOffset(col_idx) ==
    IF col_idx = 0 THEN start_x
    ELSE XOffset(col_idx - 1)
         + (IF col_idx - 1 < Len(column_widths) THEN column_widths[col_idx] ELSE 100)

SampleCell(row_idx, col_idx) ==
    LET width == IF col_idx < Len(column_widths)
                 THEN column_widths[col_idx + 1] ELSE 100
        x_offset == XOffset(col_idx)
    IN PyDict([
        row |-> PyNum(row_idx),
        column |-> PyNum(col_idx),
        text |-> PyStr(sample_data[row_idx + 1][col_idx + 1]),
        bbox |-> BoxList(x_offset, start_y + row_idx * row_height,
                         x_offset + width, start_y + (row_idx + 1) * row_height),
        confidence |-> PyNum(80),
        type |-> PyStr(IF row_idx = 0 THEN "header" ELSE "data")])

\* _create_sample_table_cells with the loop starting after the header row
_create_sample_table_cells_NoHeader ==
    PyList(FlattenRows([r \in 1..(Len(sample_data) - 1) |->
        [c \in 1..Len(sample_data[r + 1]) |-> SampleCell(r, c - 1)]]))

_create_sample_table_cells ==
    PyList(FlattenRows([r \in 1..Len(sample_data) |->
        [c \in 1..Len(sample_data[r]) |-> SampleCell(r - 1, c - 1)]]))

(***************************************************************************)
(* HuggingFaceClient: synthesized structures (huggingface_client.py).      *)
(***************************************************************************)
\* _extract_rows_from_result
_extract_rows_from_result(result) ==
    IF HasKey(result, "rows") THEN result.v["rows"]
    ELSE PyList([i \in 1..3 |-> PyDict([
            row_id |-> PyNum(i - 1),
            bbox |-> BoxList(0, (i - 1) * 30, 200, i * 30),
            confidence |-> PyNum(50)])])

_extract_columns_from_result(result) ==
    IF HasKey(result, "columns") THEN result.v["columns"]
    ELSE PyList([i \in 1..Len(column_names) |-> PyDict([
            column_id |-> PyNum(i - 1),
            name |-> PyStr(column_names[i]),
            bbox |-> BoxList((i - 1) * 100, 0, i * 100, 200),
            confidence |-> PyNum(50)])])

DummyCell(row_idx, col_idx) ==
    PyDict([
        row |-> PyNum(row_idx),
        column |-> PyNum(col_idx),
        text |-> PyStr(sample_data[row_idx + 1][col_idx + 1]),
        bbox |-> BoxList(col_idx * 100, row_idx * 30,
                         (col_idx + 1) * 100, (row_idx + 1) * 30),
        confidence |-> PyNum(70)])

_extract_cells_from_result(result) ==
    IF HasKey(result, "cells") THEN result.v["cells"]
    ELSE PyList(FlattenRows([r \in 1..Len(sample_data) |->
            [c \in 1..Len(sample_data[r]) |-> DummyCell(r - 1, c - 1)]]))

\* x bounds of the six columns of the literal fallback structure
fallback_column_x == <<0, 100, 150, 200, 350, 450, 600>>

_create_fallback_structure ==
    PyDict([
        rows |-> PyList([i \in 1..5 |-> PyDict([
            row_id |-> PyNum(i - 1),
            bbox |-> BoxList(0, (i - 1) * 30, 600, i * 30),
            confidence |-> PyNum(80)])]),
        columns |-> PyList([i \in 1..6 |-> PyDict([
            column_id |-> PyNum(i - 1),
            name |-> PyStr(column_names[i]),
            bbox |-> BoxList(fallback_column_x[i], 0, fallback_column_x[i + 1], 150),
            confidence |-> PyNum(80)])]),
        cells |-> PyList(FlattenRows([r \in 1..5 |-> [c \in 1..6 |-> PyDict([
            row |-> PyNum(r - 1),
            column |-> PyNum(c - 1),
            text |-> PyStr(sample_data[r][c]),
            bbox |-> BoxList(fallback_column_x[c], (r - 1) * 30,
                             fallback_column_x[c + 1], r * 30),
            confidence |-> PyNum(80)])]])),
        model_used |-> PyStr("fallback"),
        note |-> PyStr("Using fallback structure as models were not available")])

\* detect_tables_with_ocr_fallback
detect_tables_with_ocr_fallback ==
    PyDict([detections |-> PyList(<<PyDict([
        bounding_box |-> BoxList(50, 50, 550, 200),
        confidence_score |-> PyNum(75),
        label |-> PyStr("table")])>>)])

(***************************************************************************)
(* HuggingFaceClient._normalize_detection_results (173-220).               *)
(***************************************************************************)
\* "'box' in detection" / "detection.get(...)" raise on these element types
RaisesOnKeyTest(x) == x.t \in {"num", "None", "bool"}

\* box -> bbox, lines 195-203
ClientBBox(box) ==
    IF IsDict(box)
    THEN PyList(<<Get(box, "xmin", Get(box, "x1", PyNum(0))),
                  Get(box, "ymin", Get(box, "y1", PyNum(0))),
                  Get(box, "xmax", Get(box, "x2", PyNum(100))),
                  Get(box, "ymax", Get(box, "y2", PyNum(100)))>>)
    ELSE IF IsList(box) THEN box ELSE BoxList(0, 0, 100, 100)

\* the filter of line 209; label and score are Python values
ClientKeeps(label, score) == HasTableSubstring(label.v) \/ score.v > 30

\* the body of the for loop; raised = TRUE when an exception leaves the loop
RECURSIVE ClientDetLoop(_, _)
ClientDetLoop(detections, acc) ==
    IF detections = <<>> THEN [raised |-> FALSE, out |-> acc]
    ELSE LET detection == Head(detections)
             rest == Tail(detections)
         IN IF RaisesOnKeyTest(detection) THEN [raised |-> TRUE, out |-> <<>>]
            ELSE IF ~IsDict(detection) THEN ClientDetLoop(rest, acc)
            ELSE IF ~HasKey(detection, "box") /\ ~HasKey(detection, "bbox")
                 THEN ClientDetLoop(rest, acc)
            ELSE LET box == IF HasKey(detection, "box") THEN detection.v["box"]
                            ELSE detection.v["bbox"]
                     score == Get(detection, "score",
                                  Get(detection, "confidence", PyNum(50)))
                     label == Get(detection, "label", PyStr("table"))
                 IN IF label.t # "str" THEN [raised |-> TRUE, out |-> <<>>]
                    ELSE IF ~HasTableSubstring(label.v) /\ score.t # "num"
                         THEN [raised |-> TRUE, out |-> <<>>]
                    ELSE IF ClientKeeps(label, score)
                         THEN ClientDetLoop(rest, Append(acc, PyDict([
                                  bounding_box |-> ClientBBox(box),
                                  confidence_score |-> score,
                                  label |-> label])))
                         ELSE ClientDetLoop(rest, acc)

_normalize_detection_results(results) ==
    LET detections ==
            IF IsList(results) THEN results
            ELSE IF IsDict(results) /\ HasKey(results, "predictions")
                 THEN results.v["predictions"]
            ELSE PyList(<<results>>)
        loop == IF IsList(detections) THEN ClientDetLoop(detections.v, <<>>)
                ELSE [raised |-> TRUE, out |-> <<>>]
    IN IF ~IsList(results) /\ ~IsDict(results)
       THEN PyDict([detections |-> PyList(<<>>)])
       ELSE PyDict([detections |-> PyList(IF loop.raised THEN <<>> ELSE loop.out)])

(***************************************************************************)
(* HuggingFaceClient._normalize_structure_results (222-243).               *)
(***************************************************************************)
_normalize_structure_results(results, model_name) ==
    LET result == IF IsList(results)
                  THEN (IF Len(results.v) > 0 THEN results.v[1] ELSE PyDict(<<>>))
                  ELSE results
    IN IF ~IsDict(result) THEN _create_fallback_structure
       ELSE PyDict([
            rows |-> _extract_rows_from_result(result),
            columns |-> _extract_columns_from_result(result),
            cells |-> _extract_cells_from_result(result),
            confidence |-> Get(result, "score", PyNum(50)),
            model_used |-> PyStr(model_name)])

(***************************************************************************)
(* TableExtractor._process_detection_results (161-217).                    *)
(***************************************************************************)
confidence_threshold == 30

\* the left edge read under 'x1' only
ExtractorBBox_NoXminAlias(bbox) ==
    IF IsDict(bbox)
    THEN PyList(<<Get(bbox, "x1", PyNum(0)),
                  Get(bbox, "y1", Get(bbox, "ymin", PyNum(0))),
                  Get(bbox, "x2", Get(bbox, "xmax", PyNum(100))),
                  Get(bbox, "y2", Get(bbox, "ymax", PyNum(100)))>>)
    ELSE IF IsList(bbox) /\ Len(bbox.v) >= 4 THEN PyList(SubSeq(bbox.v, 1, 4))
    ELSE BoxList(50, 50, 550, 200)

\* lines 194-206
ExtractorBBox(bbox) ==
    IF IsDict(bbox)
    THEN PyList(<<Get(bbox, "x1", Get(bbox, "xmin", PyNum(0))),
                  Get(bbox, "y1", Get(bbox, "ymin", PyNum(0))),
                  Get(bbox, "x2", Get(bbox, "xmax", PyNum(100))),
                  Get(bbox, "y2", Get(bbox, "ymax", PyNum(100)))>>)
    ELSE IF IsList(bbox) /\ Len(bbox.v) >= 4 THEN PyList(SubSeq(bbox.v, 1, 4))
    ELSE BoxList(50, 50, 550, 200)

\* line 192
PassesThreshold(score) == score.v >= confidence_threshold

\* the for loop of lines 185-212; an exception leaves the loop and the
\* tables collected so far are returned (lines 214-217)
RECURSIVE ExtractorDetLoop(_, _)
ExtractorDetLoop(detections, tables) ==
    IF detections = <<>> THEN tables
    ELSE LET detection == Head(detections)
         IN IF ~IsDict(detection) THEN tables
            ELSE LET bbox == Get(detection, "bounding_box",
                                 Get(detection, "box",
                                     Get(detection, "bbox", PyDict(<<>>))))
                     score == Get(detection, "confidence_score",
                                  Get(detection, "score",
                                      Get(detection, "confidence", PyNum(0))))
                     label == Get(detection, "label",
                                  Get(detection, "class", PyStr("table")))
                 IN IF score.t # "num" THEN tables
                    ELSE IF PassesThreshold(score)
                         THEN ExtractorDetLoop(Tail(detections), Append(tables, PyDict([
                                  bounding_box |-> ExtractorBBox(bbox),
                                  confidence_score |-> score,
                                  label |-> label])))
                         ELSE ExtractorDetLoop(Tail(detections), tables)

\* a dict is looked up under 'detections' only
_process_detection_results_DetectionsOnly(detection_results) ==
    LET detections ==
            IF IsList(detection_results) THEN detection_results
            ELSE IF IsDict(detection_results)
                 THEN Get(detection_results, "detections",
                          PyList(<<detection_results>>))
            ELSE PyList(<<>>)
    IN IF IsList(detections) THEN ExtractorDetLoop(detections.v, <<>>) ELSE <<>>

_process_detection_results(detection_results) ==
    LET detections ==
            IF IsList(detection_results) THEN detection_results
            ELSE IF IsDict(detection_results)
                 THEN Get(detection_results, "detections",
                          Get(detection_results, "predictions",
                              Get(detection_results, "results",
                                  PyList(<<detection_results>>))))
            ELSE PyList(<<>>)
    IN IF IsList(detections) THEN ExtractorDetLoop(detections.v, <<>>) ELSE <<>>

(***************************************************************************)
(* TableExtractor._process_structure_results (219-261).                    *)
(***************************************************************************)
StructureFallback(structure_results) ==
    PyDict([
        raw_results |-> structure_results,
        rows |-> _create_sample_table_rows,
        columns |-> _create_sample_table_columns,
        cells |-> _create_sample_table_cells,
        note |-> PyStr("Table structure created using fallback method")])

\* a dict passes through only when it has both 'rows' and 'columns'
RECURSIVE _process_structure_results_BothKeys(_)
_process_structure_results_BothKeys(structure_results) ==
    IF IsDict(structure_results)
    THEN IF HasKey(structure_results, "table") THEN structure_results.v["table"]
         ELSE IF HasKey(structure_results, "data") THEN structure_results.v["data"]
         ELSE IF HasKey(structure_results, "rows") /\ HasKey(structure_results, "columns")
              THEN structure_results
         ELSE StructureFallback(structure_results)
    ELSE IF IsList(structure_results) /\ Len(structure_results.v) > 0
         THEN _process_structure_results_BothKeys(structure_results.v[1])
    ELSE StructureFallback(structure_results)

\* of a list, the last element is taken
RECURSIVE _process_structure_results_LastElement(_)
_process_structure_results_LastElement(structure_results) ==
    IF IsDict(structure_results)
    THEN IF HasKey(structure_results, "table") THEN structure_results.v["table"]
         ELSE IF HasKey(structure_results, "data") THEN structure_results.v["data"]
         ELSE IF HasKey(structure_results, "rows") \/ HasKey(structure_results, "columns")
              THEN structure_results
         ELSE StructureFallback(structure_results)
    ELSE IF IsList(structure_results) /\ Len(structure_results.v) > 0
         THEN _process_structure_results_LastElement(
                  structure_results.v[Len(structure_results.v)])
    ELSE StructureFallback(structure_results)

RECURSIVE _process_structure_results(_)
_process_structure_results(structure_results) ==
    IF IsDict(structure_results)
    THEN IF HasKey(structure_results, "table") THEN structure_results.v["table"]
         ELSE IF HasKey(structure_results, "data") THEN structure_results.v["data"]
         ELSE IF HasKey(structure_results, "rows") \/ HasKey(structure_results, "columns")
              THEN structure_results
         ELSE StructureFallback(structure_results)
    ELSE IF IsList(structure_results) /\ Len(structure_results.v) > 0
         THEN _process_structure_results(structure_results.v[1])
    ELSE StructureFallback(structure_results)

(***************************************************************************)
(* TableExtractor fallback records (263-309).                              *)
(***************************************************************************)
_create_fallback_tables_for_page(page_num) ==
    <<[page_number |-> page_num,
       table_index |-> 0,
       bounding_box |-> BoxList(50, 50, 550, 200),
       confidence_score |-> PyNum(75),
       table_data |-> PyDict([
            rows |-> _create_sample_table_rows,
            columns |-> _create_sample_table_columns,
            cells |-> _create_sample_table_cells,
            fallback_used |-> PyBool(TRUE),
            note |-> PyStr("This table was created using fallback detection since ML models were unavailable")])]>>

_create_fallback_table_entry(page_num, table_index, detection) ==
    [page_number |-> page_num,
     table_index |-> table_index,
     bounding_box |-> Get(detection, "bounding_box", BoxList(50, 50, 550, 200)),
     confidence_score |-> Get(detection, "confidence_score", PyNum(75)),
     table_data |-> PyDict([
            rows |-> _create_sample_table_rows,
            columns |-> _create_sample_table_columns,
            cells |-> _create_sample_table_cells,
            fallback_used |-> PyBool(TRUE),
            note |-> PyStr("Table structure created using fallback method")])]

(***************************************************************************)
(* HuggingFaceClient.query_model (22-107): one pass of the retry loop.     *)
(***************************************************************************)
max_retries == 3
request_delay == 2

detection_models == <<"TahaDouaji/detr-doc-table-detection",
                      "microsoft/table-transformer-detection",
                      "facebook/detr-resnet-50">>
structure_models == <<"microsoft/table-transformer-structure-recognition",
                      "microsoft/table-transformer-structure-recognition-v1.1-all">>

\* What a backend can do with one request.  "200" carries a JSON body;
\* "200bad" is a 200 whose body response.json() cannot parse, raised as a
\* RequestException (requests >= 2.27) or as a plain ValueError (older).
HttpKinds == {"200", "503", "429", "404", "500"}
TransportKinds == {"timeout", "connerr"}
BadJsonKinds == {"200bad_req", "200bad_val"}
OutcomeKinds == HttpKinds \cup TransportKinds \cup BadJsonKinds

\* BackoffWait with the 0-based loop variable as the factor
BackoffWait_ZeroBased(kind, attempt) ==
    CASE kind = "503" -> 20 * attempt
      [] kind = "429" -> 30 * attempt
      [] OTHER -> 5 * attempt

\* BackoffWait with the 503 wait copied into the 429 branch
BackoffWait_429As503(kind, attempt) ==
    CASE kind \in {"503", "429"} -> 20 * (attempt + 1)
      [] OTHER -> 5 * (attempt + 1)

\* the sleep that follows a failed attempt (attempt is 0-based), lines 73, 80,
\* 93, 99, 105
\* every other failure waits the same 5 seconds whatever the attempt
BackoffWait_OtherFlat(kind, attempt) ==
    CASE kind = "503" -> 20 * (attempt + 1)
      [] kind = "429" -> 30 * (attempt + 1)
      [] OTHER -> 5

BackoffWait(kind, attempt) ==
    CASE kind = "503" -> 20 * (attempt + 1)
      [] kind = "429" -> 30 * (attempt + 1)
      [] OTHER -> 5 * (attempt + 1)

\* a 404 handled like any other non-200 status: backoff and retry
QueryModelStep_Retry404(attempt, kind, body) ==
    CASE kind = "200" ->
            [act |-> "return", value |-> body, exc |-> "none", slept |-> request_delay]
      [] kind = "200bad_val" ->
            [act |-> "raise", value |-> PyNone, exc |-> "ValueError", slept |-> request_delay]
      [] kind \in {"503", "429"} ->
            [act |-> "continue", value |-> PyNone, exc |-> "none",
             slept |-> BackoffWait(kind, attempt)]
      [] kind \in {"404", "500", "timeout", "connerr", "200bad_req"} ->
            IF attempt = max_retries - 1
            THEN [act |-> "raise", value |-> PyNone, exc |-> "Exception",
                  slept |-> IF kind = "200bad_req" THEN request_delay ELSE 0]
            ELSE [act |-> "continue", value |-> PyNone, exc |-> "none",
                  slept |-> BackoffWait(kind, attempt)
                            + (IF kind = "200bad_req" THEN request_delay ELSE 0)]

\* a 200 returned at once, without time.sleep(self.request_delay)
QueryModelStep_NoDelay(attempt, kind, body) ==
    CASE kind = "200" ->
            [act |-> "return", value |-> body, exc |-> "none", slept |-> 0]
      [] kind = "200bad_val" ->
            [act |-> "raise", value |-> PyNone, exc |-> "ValueError", slept |-> 0]
      [] kind \in {"503", "429"} ->
            [act |-> "continue", value |-> PyNone, exc |-> "none",
             slept |-> BackoffWait(kind, attempt)]
      [] kind = "404" ->
            [act |-> "return", value |-> PyNone, exc |-> "none", slept |-> 0]
      [] kind \in {"500", "timeout", "connerr", "200bad_req"} ->
            IF attempt = max_retries - 1
            THEN [act |-> "raise", value |-> PyNone, exc |-> "Exception", slept |-> 0]
            ELSE [act |-> "continue", value |-> PyNone, exc |-> "none",
                  slept |-> BackoffWait(kind, attempt)]

\* One iteration of "for attempt in range(max_retries)" given the backend's
\* answer.  act = "return": query_model returns value; "continue": the loop
\* goes on to attempt + 1 (and query_model returns None when the range is
\* exhausted); "raise": exc leaves query_model.  slept is the time slept in
\* the iteration.
QueryModelStep(attempt, kind, body) ==
    CASE kind = "200" ->
            [act |-> "return", value |-> body, exc |-> "none", slept |-> request_delay]
      [] kind = "200bad_val" ->
            [act |-> "raise", value |-> PyNone, exc |-> "ValueError", slept |-> request_delay]
      [] kind \in {"503", "429"} ->
            [act |-> "continue", value |-> PyNone, exc |-> "none",
             slept |-> BackoffWait(kind, attempt)]
      [] kind = "404" ->
            [act |-> "return", value |-> PyNone, exc |-> "none", slept |-> 0]
      [] kind \in {"500", "timeout", "connerr", "200bad_req"} ->
            IF attempt = max_retries - 1
            THEN [act |-> "raise", value |-> PyNone, exc |-> "Exception",
                  slept |-> IF kind = "200bad_req" THEN request_delay ELSE 0]
            ELSE [act |-> "continue", value |-> PyNone, exc |-> "none",
                  slept |-> BackoffWait(kind, attempt)
                            + (IF kind = "200bad_req" THEN request_delay ELSE 0)]

\* an except clause that names ValueError only
CapabilityCatches_ValueErrorOnly(exc) == exc = "ValueError"

\* "except Exception" of detect_tables (135) and recognize_table_structure (166)
CapabilityCatches(exc) == exc \in {"Exception", "ValueError"}

\* "if result:" of lines 131 and 162
ResultAccepted(result) == Truthy(result)

\* the capability loop asking the same backend again for as long as it
\* answers 503 or 429
CapabilityStep_RetriesWhileBusy(attempt, kind, body) ==
    LET q == QueryModelStep(attempt, kind, body)
    IN CASE q.act = "continue" -> "retry"
         [] q.act = "return" /\ ResultAccepted(q.value) -> "accept"
         [] q.act = "return" /\ ~ResultAccepted(q.value) -> "next"
         [] q.act = "raise" /\ CapabilityCatches(q.exc) -> "next"
         [] q.act = "raise" /\ ~CapabilityCatches(q.exc) -> "escape"

\* What the capability loop does with the outcome of one query_model pass:
\*   "retry"  same backend, next attempt
\*   "accept" return the normalized result
\*   "next"   go on to the next backend (or give up after the last one)
\*   "escape" an exception leaves the capability call
CapabilityStep(attempt, kind, body) ==
    LET q == QueryModelStep(attempt, kind, body)
    IN CASE q.act = "continue" /\ attempt + 1 < max_retries -> "retry"
         [] q.act = "continue" /\ attempt + 1 >= max_retries -> "next"
         [] q.act = "return" /\ ResultAccepted(q.value) -> "accept"
         [] q.act = "return" /\ ~ResultAccepted(q.value) -> "next"
         [] q.act = "raise" /\ CapabilityCatches(q.exc) -> "next"
         [] q.act = "raise" /\ ~CapabilityCatches(q.exc) -> "escape"

(***************************************************************************)
(* Bodies the backends answer with.                                        *)
(***************************************************************************)
\* one table at 0.9, box as a dict
DetOneTable ==
    PyList(<<PyDict([box |-> PyDict([xmin |-> PyNum(10), ymin |-> PyNum(20),
                                     xmax |-> PyNum(300), ymax |-> PyNum(400)]),
                     score |-> PyNum(90), label |-> PyStr("table")])>>)
\* two detections, the second one not labelled as a table
DetTwoTables ==
    PyList(<<PyDict([box |-> BoxList(5, 5, 200, 100),
                     score |-> PyNum(95), label |-> PyStr("table")]),
             PyDict([bbox |-> PyDict([x1 |-> PyNum(0), y1 |-> PyNum(150),
                                      x2 |-> PyNum(200), y2 |-> PyNum(300)]),
                     score |-> PyNum(50), label |-> PyStr("figure")])>>)
\* a table below the threshold
DetLowScore ==
    PyDict([predictions |-> PyList(<<PyDict([box |-> BoxList(1, 2, 3, 4),
                     score |-> PyNum(10), label |-> PyStr("table")])>>)])
\* an answer that carries no box at all
DetNoBox == PyDict([error |-> PyStr("unknown error")])

DetectionBodies == {DetOneTable, DetTwoTables, DetLowScore, DetNoBox}

\* a structure in the {rows, columns, cells} shape
StructCanonical ==
    PyDict([rows |-> PyList(<<PyDict([row_id |-> PyNum(0)]), PyDict([row_id |-> PyNum(1)])>>),
            columns |-> PyList(<<PyDict([column_id |-> PyNum(0)])>>),
            cells |-> PyList(<<PyDict([row |-> PyNum(0), column |-> PyNum(0), text |-> PyStr("a")]),
                               PyDict([row |-> PyNum(1), column |-> PyNum(0), text |-> PyStr("b")])>>),
            score |-> PyNum(60)])
\* the list of labelled boxes an object-detection backend answers with
StructBoxes ==
    PyList(<<PyDict([score |-> PyNum(80), label |-> PyStr("table row"),
                     box |-> BoxList(0, 0, 100, 20)]),
             PyDict([score |-> PyNum(70), label |-> PyStr("table column"),
                     box |-> BoxList(0, 0, 20, 100)])>>)

\* a structure whose cells name the position (0, 0) twice
StructRepeatedCell ==
    PyDict([rows |-> PyList(<<PyDict([row_id |-> PyNum(0)])>>),
            columns |-> PyList(<<PyDict([column_id |-> PyNum(0)])>>),
            cells |-> PyList(<<PyDict([row |-> PyNum(0), column |-> PyNum(0), text |-> PyStr("a")]),
                               PyDict([row |-> PyNum(0), column |-> PyNum(0), text |-> PyStr("b")])>>)])

StructureBodies == {StructCanonical, StructBoxes, StructRepeatedCell}
\* the structure answers of the whole-document runs of Spec
RunStructureBodies == {StructCanonical}

\* parseable bodies that are falsy in Python
EmptyBodies == {PyList(<<>>), PyDict(<<>>), PyNone}

\* the answers to one request: a kind and, for a parsed 200, its body
Outcomes(bodies) ==
    {[kind |-> k, body |-> PyNone] : k \in OutcomeKinds \ {"200"}}
    \cup {[kind |-> "200", body |-> b] : b \in bodies \cup EmptyBodies}

(***************************************************************************)
(* State.                                                                  *)
(***************************************************************************)
VARIABLES
    use_fallback,     \* TableExtractor.use_fallback
    pc,               \* position of extract_tables_from_pdf
    page_count,       \* doc.page_count
    page_images,      \* page numbers returned by pdf_to_images
    total_pages,      \* extract_tables_from_pdf locals
    pages_processed,
    all_tables,
    page_pos,         \* position in page_images of the page being processed
    tables_detected,  \* _extract_tables_from_page locals
    table_index,
    page_tables,
    model_idx,        \* position in models_to_try of the running capability call
    attempt,          \* query_model's loop variable
    ret,              \* value returned by the finished capability call
    client_exc,       \* exception that left the capability call, or "none"
    accepted,         \* the finished call returned a backend's result
    cur,              \* history: requests to the backend being queried
    prev,             \* history: requests to the backend queried before it
    call_reqs,        \* history: requests sent by the running capability call
    last,             \* history: the last answer and what the client did with it
    all404,           \* history: every answer of this call was a 404
    first_parsed,     \* history: request number of the call's first parsed 200
    det_log,          \* history: per processed page, what detect_tables returned
    struct_log,       \* history: per structure call, how it ended
    norm_kind,        \* normalizer call: what norm_in is, or "none"
    norm_in,          \* normalizer call: the raw value
    norm_fn,          \* normalizer call: the function applied, or "none"
    norm_shape,       \* normalizer call: how the raw value was presented
    norm_out,         \* normalizer call: what the function returned
    workers,          \* view: how many requests the server handles at a time
    settings,         \* view: the Django settings the views read
    up,               \* view: the upload_file request last handled
    db,               \* view: the rows of UploadedFile, AnalysisResult, ExtractedTable
    req,              \* view: the analyze_file requests, each with its locals
    started,          \* view: number of requests received so far
    persisted_outcome \* history: per file, the tables of the outcome last saved

vars == <<use_fallback, pc, page_count, page_images, total_pages, pages_processed,
          all_tables, page_pos, tables_detected, table_index, page_tables,
          model_idx, attempt, ret, client_exc, accepted, cur, prev, call_reqs, last,
          all404, first_parsed, det_log, struct_log,
          norm_kind, norm_in, norm_fn, norm_shape, norm_out,
          workers, settings, up, db, req, started, persisted_outcome>>

orch_vars == <<use_fallback, page_count, page_images, total_pages>>
hist_vars == <<cur, prev, call_reqs, last, all404, first_parsed>>
norm_vars == <<norm_kind, norm_in, norm_fn, norm_shape, norm_out>>
view_vars == <<workers, settings, up, db, req, started, persisted_outcome>>
server_vars == <<workers, settings, up>>

\* no normalizer call is under observation
NoNormCall ==
    /\ norm_kind = "none"
    /\ norm_in = PyNone
    /\ norm_fn = "none"
    /\ norm_shape = "none"
    /\ norm_out = PyNone

\* no request has been received and the tables are empty
NoViewCall ==
    /\ workers = 0
    /\ settings = <<>>
    /\ up = <<>>
    /\ db = <<>>
    /\ req = <<>>
    /\ started = 0
    /\ persisted_outcome = <<>>

NoBackend == [n |-> 0, st |-> "none", slept |-> 0]
NoAnswer == [kind |-> "none", body |-> PyNone, attempt |-> 0, slept |-> 0,
             step |-> "none", model |-> 0]

\* a capability call starts: first backend, first attempt, empty history
StartCall ==
    /\ model_idx' = 1
    /\ attempt' = 0
    /\ ret' = PyNone
    /\ client_exc' = "none"
    /\ accepted' = FALSE
    /\ cur' = NoBackend
    /\ prev' = NoBackend
    /\ call_reqs' = 0
    /\ last' = NoAnswer
    /\ all404' = TRUE
    /\ first_parsed' = 0

Init ==
    /\ use_fallback \in BOOLEAN
    /\ pc = "start"
    /\ page_count = 0
    /\ page_images = <<>>
    /\ total_pages = 0
    /\ pages_processed = 0
    /\ all_tables = <<>>
    /\ page_pos = 0
    /\ tables_detected = <<>>
    /\ table_index = 0
    /\ page_tables = <<>>
    /\ model_idx = 1
    /\ attempt = 0
    /\ ret = PyNone
    /\ client_exc = "none"
    /\ accepted = FALSE
    /\ cur = NoBackend
    /\ prev = NoBackend
    /\ call_reqs = 0
    /\ last = NoAnswer
    /\ all404 = TRUE
    /\ first_parsed = 0
    /\ det_log = <<>>
    /\ struct_log = <<>>
    /\ NoNormCall
    /\ NoViewCall

(***************************************************************************)
(* PDFProcessor.pdf_to_images (17-66).  A document either fails to open or *)
(* has page_count pages of which the ones in renders can be rendered.      *)
(***************************************************************************)
Documents ==
    {[opens |-> FALSE, page_count |-> 0, renders |-> {}]}
    \cup {[opens |-> TRUE, page_count |-> n, renders |-> r] :
            n \in 0..MaxPages, r \in SUBSET (1..MaxPages)}

\* the loop over range(total_pages); page_num is 0-based as in the code
RECURSIVE RenderPages(_, _)
RenderPages(doc, page_num) ==
    IF page_num >= doc.page_count THEN <<>>
    ELSE (IF page_num + 1 \in doc.renders THEN <<page_num + 1>> ELSE <<>>)
         \o RenderPages(doc, page_num + 1)

\* pdf_to_images giving up on the document as soon as one page does not
\* render, after the pages have been collected
pdf_to_images_RaisesOnSkippedPage(doc) ==
    IF doc.opens
    THEN [raised |-> doc.renders # 1..doc.page_count, images |-> RenderPages(doc, 0)]
    ELSE [raised |-> TRUE, images |-> <<>>]

pdf_to_images(doc) ==
    IF doc.opens THEN [raised |-> FALSE, images |-> RenderPages(doc, 0)]
    ELSE [raised |-> TRUE, images |-> <<>>]

(***************************************************************************)
(* TableExtractor.extract_tables_from_pdf (23-78), start of the run.       *)
(***************************************************************************)
Rasterize ==
    /\ pc = "start"
    /\ \E doc \in Documents :
        /\ doc.renders \subseteq 1..doc.page_count
        /\ LET r == pdf_to_images(doc)
           IN /\ page_count' = doc.page_count
              /\ page_images' = r.images
              /\ IF r.raised \/ r.images = <<>>
                 THEN /\ pc' = "failed"
                      /\ UNCHANGED <<total_pages, page_pos, model_idx, attempt, ret,
                                     client_exc, accepted, hist_vars>>
                 ELSE /\ total_pages' = Len(r.images)
                      /\ page_pos' = 1
                      /\ pc' = "detect_call"
                      /\ StartCall
    /\ UNCHANGED <<use_fallback, pages_processed, all_tables, tables_detected,
                   table_index, page_tables, det_log, struct_log, norm_vars, view_vars>>

\* the loop over the pages left as soon as a page gave no table
FinishPage_StopsAfterEmptyPage(tables) ==
    /\ all_tables' = all_tables \o tables
    /\ pages_processed' = pages_processed + 1
    /\ tables_detected' = <<>>
    /\ table_index' = 0
    /\ page_tables' = <<>>
    /\ StartCall
    /\ IF page_pos < Len(page_images) /\ tables # <<>>
       THEN page_pos' = page_pos + 1 /\ pc' = "detect_call"
       ELSE page_pos' = page_pos /\ pc' = "done"

\* pages_processed counting only the pages that gave a table
FinishPage_CountsPagesWithTables(tables) ==
    /\ all_tables' = all_tables \o tables
    /\ pages_processed' = pages_processed + (IF tables = <<>> THEN 0 ELSE 1)
    /\ tables_detected' = <<>>
    /\ table_index' = 0
    /\ page_tables' = <<>>
    /\ StartCall
    /\ IF page_pos < Len(page_images)
       THEN page_pos' = page_pos + 1 /\ pc' = "detect_call"
       ELSE page_pos' = page_pos /\ pc' = "done"

\* the page is done: lines 53-56, then the next page or the result (70-78)
FinishPage(tables) ==
    /\ all_tables' = all_tables \o tables
    /\ pages_processed' = pages_processed + 1
    /\ tables_detected' = <<>>
    /\ table_index' = 0
    /\ page_tables' = <<>>
    /\ StartCall
    /\ IF page_pos < Len(page_images)
       THEN page_pos' = page_pos + 1 /\ pc' = "detect_call"
       ELSE page_pos' = page_pos /\ pc' = "done"

(***************************************************************************)
(* One HTTP request of a capability call and what the client does with     *)
(* the answer, up to the next request or the return of the call.           *)
(***************************************************************************)
CapabilityRequest(cap, models, o) ==
    LET q == QueryModelStep(attempt, o.kind, o.body)
        step == CapabilityStep(attempt, o.kind, o.body)
    IN CASE step = "retry" ->
                /\ attempt' = attempt + 1
                /\ UNCHANGED <<model_idx, ret, client_exc, accepted, pc>>
         [] step = "accept" ->
                /\ ret' = IF cap = "detect"
                          THEN _normalize_detection_results(q.value)
                          ELSE _normalize_structure_results(q.value, models[model_idx])
                /\ accepted' = TRUE
                /\ pc' = IF cap = "detect" THEN "detect_ret" ELSE "struct_ret"
                /\ UNCHANGED <<model_idx, attempt, client_exc>>
         [] step = "next" /\ model_idx < Len(models) ->
                /\ model_idx' = model_idx + 1
                /\ attempt' = 0
                /\ UNCHANGED <<ret, client_exc, accepted, pc>>
         [] step = "next" /\ model_idx >= Len(models) ->
                /\ ret' = IF cap = "detect" THEN PyNone ELSE _create_fallback_structure
                /\ pc' = IF cap = "detect" THEN "detect_ret" ELSE "struct_ret"
                /\ UNCHANGED <<model_idx, attempt, client_exc, accepted>>
         [] step = "escape" ->
                /\ client_exc' = q.exc
                /\ pc' = IF cap = "detect" THEN "detect_ret" ELSE "struct_ret"
                /\ UNCHANGED <<model_idx, attempt, ret, accepted>>

\* The history of the running call, kept by the traced requests of
\* SpecClient: per backend the number of requests, the kind they all had
\* ("mixed" otherwise) and the time slept after them.
RecordRequest(o) ==
    LET q == QueryModelStep(attempt, o.kind, o.body)
        step == CapabilityStep(attempt, o.kind, o.body)
        cur1 == [n |-> cur.n + 1,
                 st |-> IF cur.n = 0 \/ cur.st = o.kind THEN o.kind ELSE "mixed",
                 slept |-> cur.slept + q.slept]
    IN /\ call_reqs' = call_reqs + 1
       /\ all404' = (all404 /\ o.kind = "404")
       /\ first_parsed' = IF first_parsed = 0 /\ o.kind = "200"
                          THEN call_reqs + 1 ELSE first_parsed
       /\ last' = [kind |-> o.kind,
                   body |-> IF step = "accept" THEN o.body ELSE PyNone,
                   attempt |-> attempt + 1, slept |-> q.slept, step |-> step,
                   model |-> model_idx]
       /\ IF step = "next" /\ model_idx' # model_idx
          THEN prev' = cur1 /\ cur' = NoBackend
          ELSE prev' = prev /\ cur' = cur1

run_vars == <<orch_vars, pages_processed, all_tables, page_pos, tables_detected,
              table_index, page_tables, det_log, struct_log, norm_vars, view_vars>>

\* HuggingFaceClient.detect_tables (109-140)
QueryDetect ==
    /\ pc = "detect_call"
    /\ \E o \in Outcomes(DetectionBodies) :
            CapabilityRequest("detect", detection_models, o)
    /\ UNCHANGED <<run_vars, hist_vars>>

\* HuggingFaceClient.recognize_table_structure (142-171)
QueryStruct ==
    /\ pc = "struct_call"
    /\ \E o \in Outcomes(RunStructureBodies) :
            CapabilityRequest("structure", structure_models, o)
    /\ UNCHANGED <<run_vars, hist_vars>>

\* the same requests, with the history of the call recorded
TracedQueryDetect ==
    /\ pc = "detect_call"
    /\ \E o \in Outcomes(DetectionBodies) :
            CapabilityRequest("detect", detection_models, o) /\ RecordRequest(o)
    /\ UNCHANGED run_vars

TracedQueryStruct ==
    /\ pc = "struct_call"
    /\ \E o \in Outcomes(StructureBodies) :
            CapabilityRequest("structure", structure_models, o) /\ RecordRequest(o)
    /\ UNCHANGED run_vars

(***************************************************************************)
(* TableExtractor._extract_tables_from_page (80-159).                      *)
(***************************************************************************)
\* DetectionOrFallback without the test of use_fallback
DetectionOrFallback_IgnoresFlag(detection_results) ==
    IF ~Truthy(detection_results)
    THEN detect_tables_with_ocr_fallback
    ELSE detection_results

\* lines 97-104: what stands in for a missing detection result
DetectionOrFallback(detection_results) ==
    IF ~Truthy(detection_results)
    THEN (IF use_fallback THEN detect_tables_with_ocr_fallback ELSE PyNone)
    ELSE detection_results

\* a page without detections left without a table, fallback or not
PageWithoutTables_NoRecord(page_num) == <<>>

\* lines 109-114 and 154-159: the tables of a page without detections
PageWithoutTables(page_num) ==
    IF use_fallback THEN _create_fallback_tables_for_page(page_num) ELSE <<>>

\* table_index counted from 1
TableInfo_OneBased(page_num, index, table_detection, structure_results) ==
    [page_number |-> page_num,
     table_index |-> index + 1,
     bounding_box |-> table_detection.v["bounding_box"],
     confidence_score |-> Get(table_detection, "confidence_score", PyNum(75)),
     table_data |-> _process_structure_results(
                        IF ~Truthy(structure_results)
                        THEN _create_fallback_structure ELSE structure_results)]

\* every record of a page at table_index 0
TableInfo_IndexZero(page_num, index, table_detection, structure_results) ==
    [page_number |-> page_num,
     table_index |-> 0,
     bounding_box |-> table_detection.v["bounding_box"],
     confidence_score |-> Get(table_detection, "confidence_score", PyNum(75)),
     table_data |-> _process_structure_results(
                        IF ~Truthy(structure_results)
                        THEN _create_fallback_structure ELSE structure_results)]

\* lines 124-138
TableInfo(page_num, index, table_detection, structure_results) ==
    [page_number |-> page_num,
     table_index |-> index,
     bounding_box |-> table_detection.v["bounding_box"],
     confidence_score |-> Get(table_detection, "confidence_score", PyNum(75)),
     table_data |-> _process_structure_results(
                        IF ~Truthy(structure_results)
                        THEN _create_fallback_structure ELSE structure_results)]

\* lines 143-152
TableAfterException(page_num, index, table_detection) ==
    IF use_fallback
    THEN <<_create_fallback_table_entry(page_num, index, table_detection)>>
    ELSE <<>>

\* detect_tables has returned: lines 97-117
AfterDetect ==
    /\ pc = "detect_ret"
    /\ LET page_num == page_images[page_pos]
           detection_results == DetectionOrFallback(ret)
           detected == _process_detection_results(detection_results)
       IN /\ det_log' = Append(det_log, [page |-> page_num, ret |-> ret])
          /\ IF client_exc # "none" THEN FinishPage(PageWithoutTables(page_num))
             ELSE IF ~Truthy(detection_results) THEN FinishPage(<<>>)
             ELSE IF detected = <<>> THEN FinishPage(PageWithoutTables(page_num))
             ELSE /\ tables_detected' = detected
                  /\ table_index' = 0
                  /\ page_tables' = <<>>
                  /\ pc' = "struct_call"
                  /\ StartCall
                  /\ UNCHANGED <<all_tables, pages_processed, page_pos>>
    /\ UNCHANGED <<orch_vars, struct_log, norm_vars, view_vars>>

\* recognize_table_structure has returned: lines 124-152
AfterStruct ==
    /\ pc = "struct_ret"
    /\ LET page_num == page_images[page_pos]
           table_detection == tables_detected[table_index + 1]
           tables == IF client_exc = "none"
                     THEN Append(page_tables,
                                 TableInfo(page_num, table_index, table_detection, ret))
                     ELSE page_tables
                          \o TableAfterException(page_num, table_index, table_detection)
       IN /\ struct_log' = Append(struct_log,
                [page |-> page_num, index |-> table_index,
                 accepted |-> accepted, detection |-> table_detection])
          /\ IF table_index + 1 < Len(tables_detected)
             THEN /\ table_index' = table_index + 1
                  /\ page_tables' = tables
                  /\ pc' = "struct_call"
                  /\ StartCall
                  /\ UNCHANGED <<all_tables, pages_processed, page_pos, tables_detected>>
             ELSE FinishPage(tables)
    /\ UNCHANGED <<orch_vars, det_log, norm_vars, view_vars>>

Next ==
    \/ Rasterize
    \/ QueryDetect
    \/ AfterDetect
    \/ QueryStruct
    \/ AfterStruct

Spec == Init /\ [][Next]_vars

(***************************************************************************)
(* The capability calls of a one-page document, request by request, with   *)
(* the history of each call recorded.                                      *)
(***************************************************************************)
InitClient ==
    /\ use_fallback = TRUE
    /\ pc = "detect_call"
    /\ page_count = 1
    /\ page_images = <<1>>
    /\ total_pages = 1
    /\ pages_processed = 0
    /\ all_tables = <<>>
    /\ page_pos = 1
    /\ tables_detected = <<>>
    /\ table_index = 0
    /\ page_tables = <<>>
    /\ model_idx = 1
    /\ attempt = 0
    /\ ret = PyNone
    /\ client_exc = "none"
    /\ accepted = FALSE
    /\ cur = NoBackend
    /\ prev = NoBackend
    /\ call_reqs = 0
    /\ last = NoAnswer
    /\ all404 = TRUE
    /\ first_parsed = 0
    /\ det_log = <<>>
    /\ struct_log = <<>>
    /\ NoNormCall
    /\ NoViewCall

NextClient ==
    \/ TracedQueryDetect
    \/ AfterDetect
    \/ TracedQueryStruct
    \/ AfterStruct

SpecClient == InitClient /\ [][NextClient]_vars

(***************************************************************************)
(* The normalizers on their own: one raw value, one call.                  *)
(***************************************************************************)
MaxDets == 2
MaxStructList == 2

\* the fields a raw detection element may carry, one choice per group
ScoreFields == {<<>>,
                "score" :> PyNum(10),
                "score" :> PyNum(30),
                "confidence" :> PyNum(90),
                "confidence_score" :> PyNum(30)}
LabelFields == {<<>>, "label" :> PyStr("Table"), "label" :> PyStr("figure")}
BoxFields == {<<>>, "box" :> BoxList(10, 20, 300, 400)}

\* raw detection elements: every combination of the fields, and one element
\* that is not a dict
RawDetections ==
    {PyDict(b @@ s @@ l) : b \in BoxFields, s \in ScoreFields, l \in LabelFields}
    \cup {PyStr("n/a")}

\* the sequences over S of length at most n
SeqsUpTo(S, n) == UNION {[1..k -> S] : k \in 0..n}

RawDetectionLists == {PyList(q) : q \in SeqsUpTo(RawDetections, MaxDets)}

\* the shapes a list of detections is presented in
DetectionShapes == {"list", "detections", "predictions", "results"}
Present(shape, list) ==
    CASE shape = "list" -> list
      [] shape = "detections" -> PyDict([detections |-> list])
      [] shape = "predictions" -> PyDict([predictions |-> list])
      [] shape = "results" -> PyDict([results |-> list])

\* bounding boxes [x1, y1, x2, y2] and their two spellings as a dict
BoxCoords == {5, 60, 100}
RawBoxes == {BoxList(a, b, c, d) : a, b, c, d \in BoxCoords}
BoxNamings == {"xmin", "x1"}
BoxAsDict(naming, box) ==
    IF naming = "xmin"
    THEN PyDict([xmin |-> box.v[1], ymin |-> box.v[2],
                 xmax |-> box.v[3], ymax |-> box.v[4]])
    ELSE PyDict([x1 |-> box.v[1], y1 |-> box.v[2],
                 x2 |-> box.v[3], y2 |-> box.v[4]])
\* a detection at 0.9 labelled "table" that carries the box under key
BoxDetection(key, naming, box) ==
    PyDict((key :> BoxAsDict(naming, box))
           @@ [score |-> PyNum(90), label |-> PyStr("table")])

\* structure payloads: dicts over the keys the normalizer looks at and one
\* key it does not, short lists of payloads, and values of other types
RowsA == PyList(<<PyDict([row_index |-> PyNum(0),
                          cells |-> PyList(<<PyStr("a"), PyStr("b")>>)])>>)
ColumnsA == PyList(<<PyDict([column_index |-> PyNum(0), header |-> PyStr("h")])>>)
CellsA == PyList(<<PyDict([row |-> PyNum(0), column |-> PyNum(0), text |-> PyStr("a")])>>)
WrappedA == PyDict([rows |-> RowsA, columns |-> ColumnsA, cells |-> CellsA])
WrappedB == PyDict([rows |-> PyList(<<>>), cells |-> CellsA])
StructureField(k) ==
    CASE k = "rows" -> RowsA
      [] k = "columns" -> ColumnsA
      [] k = "cells" -> CellsA
      [] k = "table" -> WrappedA
      [] k = "data" -> WrappedB
      [] k = "score" -> PyNum(80)
StructureKeys == {"rows", "columns", "cells", "table", "data", "score"}
StructureDicts ==
    {PyDict([k \in K |-> StructureField(k)]) : K \in SUBSET StructureKeys}
StructureElements ==
    {WrappedA, WrappedB, PyDict([table |-> WrappedA]), PyDict([cells |-> CellsA]),
     PyStr("n/a"), PyList(<<WrappedB>>)}
RawStructures ==
    StructureDicts
    \cup {PyList(q) : q \in SeqsUpTo(StructureElements, MaxStructList)}
    \cup {PyNone, PyStr("n/a"), PyNum(0)}

\* what reaches the orchestrator's list of detections from a backend's
\* answer: the client's normalization, then the extractor's
NormalizedDetections(result) ==
    _process_detection_results(_normalize_detection_results(result))

InitNorm ==
    /\ use_fallback = TRUE
    /\ pc = "start"
    /\ page_count = 0
    /\ page_images = <<>>
    /\ total_pages = 0
    /\ pages_processed = 0
    /\ all_tables = <<>>
    /\ page_pos = 0
    /\ tables_detected = <<>>
    /\ table_index = 0
    /\ page_tables = <<>>
    /\ model_idx = 1
    /\ attempt = 0
    /\ ret = PyNone
    /\ client_exc = "none"
    /\ accepted = FALSE
    /\ cur = NoBackend
    /\ prev = NoBackend
    /\ call_reqs = 0
    /\ last = NoAnswer
    /\ all404 = TRUE
    /\ first_parsed = 0
    /\ det_log = <<>>
    /\ struct_log = <<>>
    /\ \/ norm_kind = "detections" /\ norm_in \in RawDetectionLists
       \/ norm_kind = "box" /\ norm_in \in RawBoxes
       \/ norm_kind = "structure" /\ norm_in \in RawStructures
    /\ norm_fn = "none"
    /\ norm_shape = "none"
    /\ norm_out = PyNone
    /\ NoViewCall

\* the variables of a run, which a normalizer call does not touch
client_vars == <<pc, model_idx, attempt, ret, client_exc, accepted, hist_vars>>

\* TableExtractor._process_detection_results on the list in some shape
ProcessDetection ==
    /\ norm_kind = "detections" /\ norm_fn = "none"
    /\ \E shape \in DetectionShapes :
        /\ norm_shape' = shape
        /\ norm_out' = PyList(_process_detection_results(Present(shape, norm_in)))
    /\ norm_fn' = "_process_detection_results"
    /\ UNCHANGED <<norm_kind, norm_in, orch_vars, pages_processed, all_tables, page_pos,
                   tables_detected, table_index, page_tables, det_log, struct_log, client_vars,
                   view_vars>>

\* detect_tables accepts the answer ("if result:") and normalizes it, and
\* _extract_tables_from_page processes what detect_tables returned
DetectThenProcess ==
    /\ norm_kind = "detections" /\ norm_fn = "none"
    /\ \E shape \in DetectionShapes :
        /\ ResultAccepted(Present(shape, norm_in))
        /\ norm_shape' = shape
        /\ norm_out' = PyList(NormalizedDetections(Present(shape, norm_in)))
    /\ norm_fn' = "detect_tables"
    /\ UNCHANGED <<norm_kind, norm_in, orch_vars, pages_processed, all_tables, page_pos,
                   tables_detected, table_index, page_tables, det_log, struct_log, client_vars,
                   view_vars>>

\* one detection whose box is a dict, through either path
ProcessBox ==
    /\ norm_kind = "box" /\ norm_fn = "none"
    /\ \E key \in {"box", "bbox"}, naming \in BoxNamings,
          fn \in {"_process_detection_results", "detect_tables"} :
        LET result == PyList(<<BoxDetection(key, naming, norm_in)>>)
        IN /\ norm_fn' = fn
           /\ norm_shape' = naming
           /\ norm_out' = PyList(IF fn = "detect_tables"
                                  THEN NormalizedDetections(result)
                                  ELSE _process_detection_results(result))
    /\ UNCHANGED <<norm_kind, norm_in, orch_vars, pages_processed, all_tables, page_pos,
                   tables_detected, table_index, page_tables, det_log, struct_log, client_vars,
                   view_vars>>

\* TableExtractor._process_structure_results
ProcessStructure ==
    /\ norm_kind = "structure" /\ norm_fn = "none"
    /\ norm_fn' = "_process_structure_results"
    /\ norm_shape' = IF IsList(norm_in) THEN "list"
                     ELSE IF IsDict(norm_in) THEN "dict" ELSE "other"
    /\ norm_out' = _process_structure_results(norm_in)
    /\ UNCHANGED <<norm_kind, norm_in, orch_vars, pages_processed, all_tables, page_pos,
                   tables_detected, table_index, page_tables, det_log, struct_log, client_vars,
                   view_vars>>

NextNorm ==
    \/ ProcessDetection
    \/ DetectThenProcess
    \/ ProcessBox
    \/ ProcessStructure

SpecNorm == InitNorm /\ [][NextNorm]_vars

(***************************************************************************)
(* The analyze_file view (views.py 145-333) over the three tables of      *)
(* models.py.  A request moves through the view one database operation at *)
(* a time; workers is the number of requests handled at once.  A table    *)
(* row is kept as its key (page_number, table_index); db.tables[f] are    *)
(* the ExtractedTable rows of the analysis of file f.                      *)
(***************************************************************************)
MaxRequests == 3
MaxPageTables == 2
ReqIds == {1, 2}
\* file 1 has been uploaded, no UploadedFile has the id 999
FileIds == {1, 999}
NoneCount == -1

NoAnalysis == [status |-> "none", total_pages |-> 0, pages_processed |-> 0,
               tables_found |-> 0]
NoOutcome == [raised |-> FALSE, total_pages |-> 0, pages_processed |-> 0,
              tables |-> <<>>]
\* a request with its locals and its Response; message is the sequence of
\* the parts the message is put together from.  found (the status of the
\* analysis when the request arrived) and rejected (the creates the
\* database rejected) are history.
IdleRequest == [pc |-> "idle", file_id |-> 0, http |-> 0, status |-> "none",
                message |-> <<>>, tables_found |-> NoneCount,
                analysis_result |-> NoAnalysis, tables_data |-> NoOutcome,
                e |-> "", ran |-> FALSE, found |-> "none", rejected |-> {}]

\* the exceptions extract_tables_from_pdf raises (table_extractor.py 39,
\* pdf_processor.py 66) and the one of a query in a broken transaction
ExtractionErrors == {"No pages could be processed from the PDF",
                     "Failed to process PDF"}
TransactionError ==
    "An error occurred in the current transaction. You can't execute queries until the end of the 'atomic' block."

\* no upload_file request has been handled
NoUpload == [pc |-> "idle", has_file |-> FALSE, name |-> <<>>, size |-> 0,
             stored |-> FALSE, http |-> 0, status |-> "none", message |-> <<>>,
             file_id |-> 0, before |-> <<>>]

\* the TableRecords of an outcome with counts[i] tables on page i
RECURSIVE OutcomeTables(_, _, _)
OutcomeTables(counts, page_num, index) ==
    IF page_num > Len(counts) THEN <<>>
    ELSE IF index >= counts[page_num] THEN OutcomeTables(counts, page_num + 1, 0)
    ELSE <<[page_number |-> page_num, table_index |-> index]>>
         \o OutcomeTables(counts, page_num, index + 1)

\* what extract_tables_from_pdf gives the view: it raises, or it returns an
\* outcome over the rasterized pages; the extractor of the view has
\* use_fallback set, so every page has a table
ViewOutcomes ==
    {[NoOutcome EXCEPT !.raised = TRUE]}
    \cup {[raised |-> FALSE, total_pages |-> Len(counts),
           pages_processed |-> Len(counts), tables |-> OutcomeTables(counts, 1, 0)] :
            counts \in UNION {[1..n -> 1..MaxPageTables] : n \in 1..MaxPages}}

\* the save block with the rows the database rejects left out and the rest
\* committed
AtomicSave_SkipsFailedRows(analysis_result, tables_data, failing) ==
    LET tables == tables_data.tables
        keep[i \in 0..Len(tables)] ==
            IF i = 0 THEN <<>>
            ELSE IF i \in failing THEN keep[i - 1]
            ELSE Append(keep[i - 1], tables[i])
    IN  [committed |-> TRUE,
         rows |-> keep[Len(tables)],
         analysis_result |->
            [status |-> "completed", total_pages |-> tables_data.total_pages,
             pages_processed |-> tables_data.pages_processed,
             tables_found |-> Len(keep[Len(tables)])]]

\* the save block reporting the pages of the outcome as the tables found
AtomicSave_CountsPages(analysis_result, tables_data, failing) ==
    [committed |-> failing = {},
     rows |-> IF failing = {} THEN tables_data.tables ELSE <<>>,
     analysis_result |->
        [status |-> "completed", total_pages |-> tables_data.total_pages,
         pages_processed |-> tables_data.pages_processed,
         tables_found |-> tables_data.pages_processed]]

\* the transaction.atomic() block (227-264); failing are the positions of
\* the tables whose create the database rejects.  A rejected create marks
\* the transaction for rollback: every later query in the block raises, the
\* creates after it are caught too, the save of line 260 is not, and the
\* block rolls back.  analysis_result is the in-memory object after the block.
AtomicSave(analysis_result, tables_data, failing) ==
    LET tables == tables_data.tables
        tables_created ==
            Cardinality({i \in 1..Len(tables) : \A j \in 1..i : j \notin failing})
        saved == [status |-> "completed", total_pages |-> tables_data.total_pages,
                  pages_processed |-> tables_data.pages_processed,
                  tables_found |-> tables_created]
    IN  [committed |-> failing = {},
         rows |-> IF failing = {} THEN tables ELSE <<>>,
         analysis_result |-> saved]

\* the extractor has not run
IdleExtractor ==
    /\ use_fallback = TRUE
    /\ pc = "start"
    /\ page_count = 0
    /\ page_images = <<>>
    /\ total_pages = 0
    /\ pages_processed = 0
    /\ all_tables = <<>>
    /\ page_pos = 0
    /\ tables_detected = <<>>
    /\ table_index = 0
    /\ page_tables = <<>>
    /\ model_idx = 1
    /\ attempt = 0
    /\ ret = PyNone
    /\ client_exc = "none"
    /\ accepted = FALSE
    /\ cur = NoBackend
    /\ prev = NoBackend
    /\ call_reqs = 0
    /\ last = NoAnswer
    /\ all404 = TRUE
    /\ first_parsed = 0
    /\ det_log = <<>>
    /\ struct_log = <<>>
    /\ NoNormCall

\* the server before the first request, handling n requests at a time
InitServer(n) ==
    /\ IdleExtractor
    /\ workers = n
    /\ settings \in [HUGGINGFACE_API_KEY : {"", "test-key"},
                     ENABLE_FALLBACK_TABLE_DETECTION : BOOLEAN]
    /\ up = NoUpload
    /\ \E disk \in BOOLEAN :
        db = [file |-> [f \in FileIds |-> IF f = 1 THEN "pending" ELSE "none"],
              on_disk |-> [f \in FileIds |-> f = 1 /\ disk],
              analysis |-> [f \in FileIds |-> NoAnalysis],
              tables |-> [f \in FileIds |-> <<>>]]
    /\ req = [r \in ReqIds |-> IdleRequest]
    /\ started = 0
    /\ persisted_outcome = [f \in FileIds |-> <<>>]

\* requests are handled one after the other
InitView == InitServer(1)

extractor_vars == <<orch_vars, pc, pages_processed, all_tables, page_pos,
                    tables_detected, table_index, page_tables, model_idx, attempt,
                    ret, client_exc, accepted, hist_vars, det_log, struct_log,
                    norm_vars>>

InFlight == {q \in ReqIds : req[q].pc \notin {"idle", "done"}}

\* the view returns a Response
Respond(r, http, status, message, tables_found) ==
    [req EXCEPT ![r].pc = "done", ![r].http = http, ![r].status = status,
                ![r].message = message, ![r].tables_found = tables_found]

\* a POST with file_id f reaches the view
StartRequest(r, f) ==
    /\ workers > 0
    /\ started < MaxRequests
    /\ r \notin InFlight
    /\ Cardinality(InFlight) < workers
    /\ \A q \in ReqIds : q < r => q \in InFlight
    /\ req' = [req EXCEPT ![r] = [IdleRequest EXCEPT !.pc = "validate", !.file_id = f,
                                                     !.found = db.analysis[f].status]]
    /\ started' = started + 1
    /\ UNCHANGED <<extractor_vars, server_vars, db, persisted_outcome>>

\* serializer.is_valid() with validate_file_id (serializers.py 72-86), then
\* get_object_or_404 and the check of the file on disk (views.py 163-185)
ValidateRequest(r) ==
    /\ req[r].pc = "validate"
    /\ LET f == req[r].file_id IN
        req' = IF db.file[f] = "none"
                  THEN Respond(r, 400, "error", <<"Invalid request data.">>, NoneCount)
               ELSE IF db.analysis[f].status \in {"processing", "completed"}
                  THEN Respond(r, 400, "error", <<"Invalid request data.">>, NoneCount)
               ELSE IF ~db.on_disk[f]
                  THEN Respond(r, 404, "error",
                               <<"File not found on disk. Please re-upload the file.">>,
                               NoneCount)
               ELSE [req EXCEPT ![r].pc = "get_or_create"]
    /\ UNCHANGED <<extractor_vars, server_vars, db, started, persisted_outcome>>

\* get_or_create and the guard on an analysis already under way (187-203)
GetOrCreate(r) ==
    /\ req[r].pc = "get_or_create"
    /\ LET f == req[r].file_id
           created == db.analysis[f].status = "none"
           analysis_result == IF created THEN [NoAnalysis EXCEPT !.status = "pending"]
                              ELSE db.analysis[f]
       IN  /\ db' = [db EXCEPT !.analysis[f] = analysis_result]
           /\ req' = IF ~created /\ analysis_result.status \in {"processing", "completed"}
                        THEN Respond(r, 200, "info",
                                     <<"File analysis is already ",
                                       analysis_result.status, ".">>,
                                     IF analysis_result.status = "completed"
                                        THEN analysis_result.tables_found
                                        ELSE NoneCount)
                     ELSE [req EXCEPT ![r].pc = "mark",
                                      ![r].analysis_result = analysis_result]
    /\ UNCHANGED <<extractor_vars, server_vars, started, persisted_outcome>>

\* file and analysis are set to 'processing' and saved (205-210)
MarkProcessing(r) ==
    /\ req[r].pc = "mark"
    /\ LET f == req[r].file_id
           analysis_result == [req[r].analysis_result EXCEPT !.status = "processing"]
       IN  /\ db' = [db EXCEPT !.file[f] = "processing",
                               !.analysis[f] = analysis_result]
           /\ req' = [req EXCEPT ![r].pc = "extract",
                                 ![r].analysis_result = analysis_result]
    /\ UNCHANGED <<extractor_vars, server_vars, started, persisted_outcome>>

\* TableExtractor().extract_tables_from_pdf (212-224)
Extract(r) ==
    /\ req[r].pc = "extract"
    /\ \E tables_data \in ViewOutcomes :
        \E e \in IF tables_data.raised THEN ExtractionErrors ELSE {""} :
            req' = [req EXCEPT ![r].pc = IF tables_data.raised THEN "error" ELSE "save",
                               ![r].tables_data = tables_data,
                               ![r].e = e,
                               ![r].ran = TRUE]
    /\ UNCHANGED <<extractor_vars, server_vars, db, started, persisted_outcome>>

\* the outcome is saved and the view answers 'completed' (226-280), or the
\* block raises and the handler of line 282 takes over
SaveResults(r) ==
    /\ req[r].pc = "save"
    /\ \E failing \in SUBSET (1..Len(req[r].tables_data.tables)) :
        LET f == req[r].file_id
            s == AtomicSave(req[r].analysis_result, req[r].tables_data, failing)
        IN  IF s.committed
            THEN /\ db' = [db EXCEPT !.analysis[f] = s.analysis_result,
                                     !.tables[f] = s.rows,
                                     !.file[f] = "completed"]
                 /\ persisted_outcome' =
                        [persisted_outcome EXCEPT ![f] = req[r].tables_data.tables]
                 /\ req' = [Respond(r, 200, "completed",
                                    <<"Analysis completed successfully.">>,
                                    s.analysis_result.tables_found)
                               EXCEPT ![r].analysis_result = s.analysis_result,
                                      ![r].rejected = failing]
            ELSE /\ req' = [req EXCEPT ![r].pc = "error",
                                       ![r].analysis_result = s.analysis_result,
                                       ![r].e = TransactionError,
                                       ![r].rejected = failing]
                 /\ UNCHANGED <<db, persisted_outcome>>
    /\ UNCHANGED <<extractor_vars, server_vars, started>>

\* _create_fallback_analysis (336-429): the analysis is completed with one
\* sample table on page 1
_create_fallback_analysis(analysis_result) ==
    [raised |-> FALSE,
     analysis_result |-> [status |-> "completed", total_pages |-> 1,
                          pages_processed |-> 1, tables_found |-> 1],
     rows |-> <<[page_number |-> 1, table_index |-> 0]>>,
     tables_found |-> 1]

\* the names analyze_file can look up when line 290 runs: its locals and
\* the names of the module
NamesInScope == {"request", "serializer", "file_id", "uploaded_file",
                 "analysis_result", "created", "extractor", "start_time", "e",
                 "settings", "logger", "transaction", "_create_fallback_analysis"}

\* line 290, self._create_fallback_analysis(analysis_result, uploaded_file):
\* the name self is looked up first, and a name out of scope raises NameError
FallbackAttempt(analysis_result) ==
    IF "self" \in NamesInScope
    THEN _create_fallback_analysis(analysis_result)
    ELSE [raised |-> TRUE, analysis_result |-> analysis_result, rows |-> <<>>,
          tables_found |-> 0]

\* the handler of the inner try (282-323): the fallback attempt if the
\* setting allows it, and if that gave no table the analysis and the file
\* are set to 'failed'
HandleError(r) ==
    /\ req[r].pc = "error"
    /\ LET f == req[r].file_id
           enabled == settings.ENABLE_FALLBACK_TABLE_DETECTION
           fallback_result == FallbackAttempt(req[r].analysis_result)
           analysis_result == [req[r].analysis_result EXCEPT !.status = "failed"]
       IN  IF enabled /\ ~fallback_result.raised /\ fallback_result.tables_found > 0
           THEN /\ db' = [db EXCEPT !.analysis[f] = fallback_result.analysis_result,
                                    !.tables[f] = db.tables[f] \o fallback_result.rows,
                                    !.file[f] = "completed"]
                /\ req' = [Respond(r, 200, "completed_with_fallback",
                                   <<"Analysis completed using fallback method.">>,
                                   fallback_result.tables_found)
                              EXCEPT ![r].analysis_result = fallback_result.analysis_result]
           ELSE /\ db' = [db EXCEPT !.analysis[f] = analysis_result,
                                    !.file[f] = "failed"]
                /\ req' = [Respond(r, 500, "error", <<"Analysis failed: ", req[r].e>>,
                                   NoneCount)
                              EXCEPT ![r].analysis_result = analysis_result]
    /\ UNCHANGED <<extractor_vars, server_vars, started, persisted_outcome>>

NextView ==
    \/ \E r \in ReqIds, f \in FileIds : StartRequest(r, f)
    \/ \E r \in ReqIds : ValidateRequest(r)
    \/ \E r \in ReqIds : GetOrCreate(r)
    \/ \E r \in ReqIds : MarkProcessing(r)
    \/ \E r \in ReqIds : Extract(r)
    \/ \E r \in ReqIds : SaveResults(r)
    \/ \E r \in ReqIds : HandleError(r)

SpecView == InitView /\ [][NextView]_vars

\* two requests are handled at a time, their database operations
\* interleaved; the server has its API key and the uploaded file is on disk
InitRace ==
    /\ InitServer(2)
    /\ settings.HUGGINGFACE_API_KEY # ""
    /\ settings.ENABLE_FALLBACK_TABLE_DETECTION
    /\ db.on_disk[1]

SpecRace == InitRace /\ [][NextView]_vars

(***************************************************************************)
(* The upload_file view (views.py 26-113) with FileUploadSerializer        *)
(* (serializers.py 5-31).  A file name is the sequence of its characters.  *)
(***************************************************************************)
MaxUploads == 2
MaxUploadSize == 10 * 1024 * 1024

UploadNames ==
    {<<>>,
     <<"a", ".", "p", "d", "f">>,
     <<"A", ".", "P", "D", "F">>,
     <<"a", ".", "P", "d", "f">>,
     <<".", "p", "d", "f">>,
     <<"p", "d", "f">>,
     <<"a", ".", "t", "x", "t">>,
     <<"a", ".", "p", "d", "f", ".", "t", "x", "t">>}
UploadSizes == {0, 1, MaxUploadSize, MaxUploadSize + 1}

\* what reaches the view: with or without a 'file' part, the part's name and
\* size, and whether the storage and the database take the new file
UploadRequests ==
    [has_file : BOOLEAN, name : UploadNames, size : UploadSizes, stored : BOOLEAN]

\* str.lower() on one character of the names above
LowerChar(ch) ==
    CASE ch = "A" -> "a" [] ch = "P" -> "p" [] ch = "D" -> "d" [] ch = "F" -> "f"
      [] OTHER -> ch
\* the name compared in the case it came in
Lower_AsIs(name) == name
\* str.lower()
Lower(name) == [i \in DOMAIN name |-> LowerChar(name[i])]
\* str.endswith()
EndsWith(name, suffix) ==
    /\ Len(name) >= Len(suffix)
    /\ SubSeq(name, Len(name) - Len(suffix) + 1, Len(name)) = suffix
DotPdf == <<".", "p", "d", "f">>

\* FileUploadSerializer.is_valid(): the FileField refuses a part without
\* name and an empty file, then validate_file (14-24)
FileUploadSerializerValid(name, size) ==
    /\ name # <<>>
    /\ size # 0
    /\ EndsWith(Lower(name), DotPdf)
    /\ size <= MaxUploadSize

\* the UploadedFile rows
UploadedFiles == {f \in DOMAIN db.file : db.file[f] # "none"}
NextFileId ==
    1 + (CHOOSE m \in UploadedFiles \cup {0} : \A f \in UploadedFiles : f <= m)

\* the Response of upload_file
UploadAnswer(u, http, status, message, file_id) ==
    [pc |-> "done", has_file |-> u.has_file, name |-> u.name, size |-> u.size,
     stored |-> u.stored, http |-> http, status |-> status, message |-> message,
     file_id |-> file_id, before |-> db.file]

\* upload_file (42-113) from the request to the Response
UploadFile(u) ==
    /\ workers > 0
    /\ started < MaxUploads
    /\ started' = started + 1
    /\ IF ~u.has_file
       THEN /\ up' = UploadAnswer(u, 400, "error", <<"No file provided.">>, 0)
            /\ UNCHANGED db
       ELSE IF u.name = <<>>
       THEN /\ up' = UploadAnswer(u, 400, "error", <<"File name is required.">>, 0)
            /\ UNCHANGED db
       ELSE IF ~EndsWith(Lower(u.name), DotPdf)
       THEN /\ up' = UploadAnswer(u, 400, "error", <<"Only PDF files are allowed.">>, 0)
            /\ UNCHANGED db
       ELSE IF u.size > MaxUploadSize
       THEN /\ up' = UploadAnswer(u, 400, "error", <<"File size cannot exceed 10MB.">>, 0)
            /\ UNCHANGED db
       ELSE IF ~FileUploadSerializerValid(u.name, u.size)
       THEN /\ up' = UploadAnswer(u, 400, "error", <<"File validation failed.">>, 0)
            /\ UNCHANGED db
       ELSE IF ~u.stored
       THEN /\ up' = UploadAnswer(u, 500, "error", <<"File upload failed: ">>, 0)
            /\ UNCHANGED db
       ELSE LET id == NextFileId IN
            /\ up' = UploadAnswer(u, 200, "uploaded", <<"File uploaded successfully.">>, id)
            /\ db' = [file |-> (id :> "pending") @@ db.file,
                      on_disk |-> (id :> TRUE) @@ db.on_disk,
                      analysis |-> (id :> NoAnalysis) @@ db.analysis,
                      tables |-> (id :> <<>>) @@ db.tables]
    /\ UNCHANGED <<extractor_vars, workers, settings, req, persisted_outcome>>

InitUpload == InitServer(1)

NextUpload == \E u \in UploadRequests : UploadFile(u)

SpecUpload == InitUpload /\ [][NextUpload]_vars

(***************************************************************************)
(* Properties.                                                             *)
(***************************************************************************)
\* the page at position i of page_images has been processed to the end
PageDone(i) == pc = "done" \/ page_pos > i

\* the TableRecords emitted so far, those of the running page included
Emitted == all_tables \o page_tables
RecordsOfPage(page_num) == SelectSeq(Emitted, LAMBDA r : r.page_number = page_num)
RecordsAt(page_num, index) ==
    SelectSeq(Emitted, LAMBDA r : r.page_number = page_num /\ r.table_index = index)

FallbackUsed(table_data) ==
    /\ IsDict(table_data)
    /\ HasKey(table_data, "fallback_used")
    /\ table_data.v["fallback_used"] = PyBool(TRUE)

\* table_data has n rows, m columns and one cell for each (row, column) pair
IsGrid(table_data, n, m) ==
    /\ IsDict(table_data)
    /\ Len(table_data.v["rows"].v) = n
    /\ Len(table_data.v["columns"].v) = m
    /\ Len(table_data.v["cells"].v) = n * m
    /\ {<<c.v["row"].v, c.v["column"].v>> :
            c \in {table_data.v["cells"].v[k] : k \in 1..Len(table_data.v["cells"].v)}}
       = (0..(n - 1)) \X (0..(m - 1))

\* detect_tables returned absent for the page at position i
DetectionAbsent(i) == det_log[i].ret = PyNone
\* detect_tables returned a payload of which no detection passes the threshold
DetectionEmpty(i) ==
    det_log[i].ret # PyNone /\ _process_detection_results(det_log[i].ret) = <<>>

\* C1: with fallback enabled, a page whose detection call returned absent has
\* exactly one TableRecord, at table_index 0 with confidence 0.75, and its
\* table_data carries fallback_used == true.
C1_AbsentDetectionGivesFlaggedFallback ==
    \A i \in 1..Len(det_log) :
        (use_fallback /\ DetectionAbsent(i) /\ PageDone(i)) =>
            LET rs == RecordsOfPage(det_log[i].page)
            IN /\ Len(rs) = 1
               /\ rs[1].table_index = 0
               /\ rs[1].confidence_score = PyNum(75)
               /\ FallbackUsed(rs[1].table_data)

\* C2: with fallback enabled, a detected box whose structure recognition failed
\* on every backend yields a TableRecord that keeps the detected bounding box
\* and confidence and whose table_data is the placeholder tagged
\* fallback_used == true.
C2_FailedStructureGivesFlaggedPlaceholder ==
    \A k \in 1..Len(struct_log) :
        LET e == struct_log[k]
        IN (use_fallback /\ ~e.accepted
              /\ \E i \in 1..Len(det_log) : det_log[i].page = e.page /\ ~DetectionAbsent(i)) =>
            LET rs == RecordsAt(e.page, e.index)
            IN /\ Len(rs) = 1
               /\ rs[1].bounding_box = e.detection.v["bounding_box"]
               /\ rs[1].confidence_score = e.detection.v["confidence_score"]
               /\ IsGrid(rs[1].table_data, 5, 6)
               /\ FallbackUsed(rs[1].table_data)

\* C3: with fallback disabled, a detected table whose structure recognition
\* failed on every backend is omitted from the outcome.
C3_FailedStructureOmittedWithoutFallback ==
    \A k \in 1..Len(struct_log) :
        (~use_fallback /\ ~struct_log[k].accepted) =>
            RecordsAt(struct_log[k].page, struct_log[k].index) = <<>>

\* C4: with fallback disabled, a page whose detection call returned absent, or
\* a payload with no detection passing the threshold, contributes no
\* TableRecord and no structure-recognition call is made for it.
C4_NoDetectionNoRecordWithoutFallback ==
    \A i \in 1..Len(det_log) :
        (~use_fallback /\ (DetectionAbsent(i) \/ DetectionEmpty(i))) =>
            /\ RecordsOfPage(det_log[i].page) = <<>>
            /\ \A k \in 1..Len(struct_log) : struct_log[k].page # det_log[i].page
            /\ ~(page_pos = i /\ pc \in {"struct_call", "struct_ret"})

C4_Witness ==
    /\ ~use_fallback
    /\ pc = "done"
    /\ Len(det_log) = 2
    /\ DetectionAbsent(1)
    /\ DetectionEmpty(2)

\* C5: with fallback enabled, a page whose detection payload has no detection
\* left after normalization and the threshold has exactly one TableRecord:
\* table_index 0, bounding box [50, 50, 550, 200], confidence 0.75 and a
\* placeholder of 5 rows, 6 columns and 30 cells, one per (row, column) pair,
\* tagged fallback_used == true.
C5_EmptyDetectionGivesPlaceholderTable ==
    \A i \in 1..Len(det_log) :
        (use_fallback /\ DetectionEmpty(i) /\ PageDone(i)) =>
            LET rs == RecordsOfPage(det_log[i].page)
            IN /\ Len(rs) = 1
               /\ rs[1].table_index = 0
               /\ rs[1].bounding_box = BoxList(50, 50, 550, 200)
               /\ rs[1].confidence_score = PyNum(75)
               /\ IsGrid(rs[1].table_data, 5, 6)
               /\ FallbackUsed(rs[1].table_data)

C5_Witness ==
    /\ use_fallback
    /\ pc = "done"
    /\ \E i \in 1..Len(det_log) :
        /\ DetectionEmpty(i)
        /\ det_log[i].ret.v["detections"].v # <<>>
        /\ Len(RecordsOfPage(det_log[i].page)) = 1

\* the capability call has returned to the orchestrator
CallReturned == pc \in {"detect_ret", "struct_ret"}
\* the backend list of the running (or just finished) capability call
ModelsOfCall ==
    IF pc \in {"detect_call", "detect_ret"} THEN detection_models ELSE structure_models
\* every backend of the list was asked once and every answer was a 404
EveryBackend404 == all404 /\ call_reqs = Len(ModelsOfCall)

\* C6: for each capability, when every backend of its list answers 404 the
\* call returns absent (None) and does not raise.
C6_All404ReturnsAbsent ==
    (CallReturned /\ EveryBackend404) => (ret = PyNone /\ client_exc = "none")

\* C7: whatever the backends answer, no exception leaves detect_tables or
\* recognize_table_structure.
C7_NoExceptionLeavesCapability == client_exc = "none"

\* query_model raised on the last attempt of two detection backends in a row
\* and detect_tables has returned
C7_Witness ==
    /\ pc = "detect_ret"
    /\ prev.n = max_retries /\ prev.st = "500"
    /\ cur.n = max_retries /\ cur.st = "timeout"
    /\ QueryModelStep(last.attempt - 1, last.kind, last.body).act = "raise"

\* C8: the first backend that answers 200 with a parseable payload wins, even
\* when the payload is empty: the call returns that backend's result and no
\* later backend is queried.
C8_FirstParsedAnswerWins ==
    first_parsed # 0 =>
        /\ call_reqs = first_parsed
        /\ CallReturned
        /\ accepted

\* C9: a 503 on attempt n is followed by a wait of 20*n seconds and a retry of
\* the same backend, and after 3 of them the call moves on; when
\* the first detection backend answers 503 every time and the second answers
\* 200 with a payload on its first attempt, the call sends 3 requests to the
\* first, 1 to the second, has slept 20+40+60 seconds before the latter and
\* returns the second backend's payload.
C9_Retry503ThenNextBackend ==
    /\ last.kind = "503" =>
        /\ last.slept = 20 * last.attempt
        /\ last.attempt < 3 =>
            (pc \in {"detect_call", "struct_call"}
                /\ model_idx = last.model /\ attempt = last.attempt)
        /\ last.attempt >= 3 =>
            \/ CallReturned /\ last.model = Len(ModelsOfCall)
            \/ pc \in {"detect_call", "struct_call"}
                /\ model_idx = last.model + 1 /\ attempt = 0
    /\ (pc = "detect_ret" /\ model_idx = 2 /\ prev.st = "503"
            /\ last.kind = "200" /\ last.attempt = 1 /\ accepted) =>
        /\ prev.n = 3
        /\ cur.n = 1
        /\ call_reqs = 4
        /\ prev.slept = 20 + 40 + 60
        /\ ret = _normalize_detection_results(last.body)

C9_Witness ==
    /\ pc = "detect_ret" /\ model_idx = 2 /\ prev.st = "503" /\ prev.n = 3
    /\ last.kind = "200" /\ last.attempt = 1 /\ accepted
    /\ last.body = DetOneTable

\* C10: a 429 on attempt n is followed by a wait of 30*n seconds and a retry
\* of the same backend; after 3 answers of 429 the backend is
\* abandoned and the next backend of the list is queried.
C10_Retry429ThenNextBackend ==
    last.kind = "429" =>
        /\ last.slept = 30 * last.attempt
        /\ last.attempt < 3 =>
            (pc \in {"detect_call", "struct_call"}
                /\ model_idx = last.model /\ attempt = last.attempt)
        /\ last.attempt >= 3 =>
            \/ CallReturned /\ last.model = Len(ModelsOfCall)
            \/ pc \in {"detect_call", "struct_call"}
                /\ model_idx = last.model + 1 /\ attempt = 0

\* a backend has answered 429 max_retries times and the next one is up
C10_Witness ==
    /\ pc = "detect_call"
    /\ last.kind = "429" /\ last.attempt = max_retries
    /\ prev.st = "429" /\ prev.n = max_retries /\ prev.slept = 30 + 60 + 90
    /\ model_idx = last.model + 1

\* the answers query_model handles in its last branch and its except clauses:
\* a status other than 200, 503, 429 and 404, a timeout, a transport error
OtherFailureKinds == {"500"} \cup TransportKinds

\* C11: a failure of that kind on attempt n < 3 is followed by a wait of 5*n
\* seconds and a retry of the same backend; on attempt 3 the backend is given
\* up and the next backend of the list is queried (or the call returns after
\* the last backend), and no exception leaves the capability call.
C11_OtherFailureRetriedThenNextBackend ==
    last.kind \in OtherFailureKinds =>
        /\ client_exc = "none"
        /\ last.attempt < 3 =>
            /\ last.slept = 5 * last.attempt
            /\ pc \in {"detect_call", "struct_call"}
            /\ model_idx = last.model /\ attempt = last.attempt
        /\ last.attempt >= 3 =>
            \/ CallReturned /\ last.model = Len(ModelsOfCall)
            \/ pc \in {"detect_call", "struct_call"}
                /\ model_idx = last.model + 1 /\ attempt = 0

\* the first backend timed out three times (5 and 10 seconds slept between
\* the attempts) and the second has failed once with a 500 and is retried
C11_Witness ==
    /\ pc = "detect_call"
    /\ prev.st = "timeout" /\ prev.n = 3 /\ prev.slept = 5 + 10
    /\ last.kind = "500" /\ last.attempt = 1 /\ last.slept = 5
    /\ model_idx = 2 /\ attempt = 1
    /\ client_exc = "none"

\* C12: a 404 is never retried and never waited on: the request that got it
\* is the backend's last one in the call, the next backend (if any) is
\* queried with nothing slept, and a backend that answers 404 to its first
\* request has received exactly one request.
C12_NotFoundSkipsBackendAtOnce ==
    /\ last.kind = "404" =>
        /\ last.slept = 0
        /\ \/ CallReturned /\ last.model = Len(ModelsOfCall)
           \/ pc \in {"detect_call", "struct_call"}
               /\ model_idx = last.model + 1 /\ attempt = 0
    /\ cur.st = "404" => (cur.n = 1 /\ cur.slept = 0)
    /\ prev.st = "404" => (prev.n = 1 /\ prev.slept = 0)

\* the first detection backend answered 404 to its one request and the second
\* backend has been queried after it
C12_Witness ==
    /\ pc = "detect_call"
    /\ prev.st = "404" /\ prev.n = 1
    /\ cur.n = 1 /\ call_reqs = 2
    /\ model_idx = 2

\* C13: every 200 answer is followed by a sleep of request_delay (2 seconds)
\* before query_model returns or raises, so that much time has passed before
\* any later request.
C13_DelayAfterEvery200 ==
    last.kind \in {"200"} \cup BadJsonKinds => last.slept >= 2

\* a 200 whose payload was refused as empty, the next backend being up
C13_Witness ==
    /\ pc = "detect_call"
    /\ last.kind = "200" /\ last.step = "next" /\ last.slept = request_delay
    /\ model_idx = last.model + 1

\* a normalizer call of the given function has returned
Returned(fn) == norm_fn = fn

\* C14: _process_detection_results returns the same sequence of detections
\* for a list presented bare, as {detections: list} and as
\* {predictions: list}.
C14_DetectionShapesAgree ==
    (norm_kind = "detections" /\ Returned("_process_detection_results")
        /\ norm_shape \in {"list", "detections", "predictions"}) =>
            norm_out = PyList(_process_detection_results(norm_in))

\* two detections presented under 'predictions', both retained
C14_Witness ==
    /\ norm_kind = "detections" /\ Returned("_process_detection_results")
    /\ norm_shape = "predictions"
    /\ Len(norm_in.v) = 2
    /\ Len(norm_out.v) = 2
    /\ norm_out.v[1] # norm_out.v[2]

\* C15: a backend answer that holds the list under 'detections',
\* 'predictions' or 'results' gives, through detect_tables and then
\* _process_detection_results, the detections the bare list gives.
C15_WrappedAnswerSameAsBareList ==
    (norm_kind = "detections" /\ Returned("detect_tables")
        /\ norm_shape \in {"detections", "predictions", "results"}) =>
            norm_out = PyList(NormalizedDetections(norm_in))

\* the confidence a raw element states, under any of the three spellings
RawConfidence(detection) ==
    IF IsDict(detection)
    THEN Get(detection, "score",
             Get(detection, "confidence",
                 Get(detection, "confidence_score", PyNone)))
    ELSE PyNone
AtThreshold(detection) ==
    /\ IsDict(detection) /\ HasKey(detection, "box")
    /\ RawConfidence(detection) = PyNum(confidence_threshold)

\* C16: of the detections normalized from a backend's list, none has a
\* confidence below the threshold 0.3, and every raw detection whose
\* confidence is exactly 0.3 is among them, whatever its label: a list of
\* such detections is retained whole.
C16_ThresholdInclusive ==
    (norm_kind = "detections" /\ Returned("detect_tables")
        /\ norm_shape \in {"list", "predictions"}) =>
        /\ \A j \in DOMAIN norm_out.v :
                norm_out.v[j].v["confidence_score"].v >= 30
        /\ (\A i \in DOMAIN norm_in.v : AtThreshold(norm_in.v[i])) =>
                Len(norm_out.v) = Len(norm_in.v)

NoConfidenceField(detection) ==
    IsDict(detection) /\ RawConfidence(detection) = PyNone
NoLabelField(detection) ==
    IsDict(detection) /\ ~HasKey(detection, "label") /\ ~HasKey(detection, "class")

\* C17: a raw detection that carries none of score, confidence and
\* confidence_score is normalized to a confidence of 0.0 and so is not among
\* the detections retained; one that carries no label gets the label
\* "table".
C17_MissingFieldsDefault ==
    (norm_kind = "detections" /\ norm_shape = "list" /\ norm_fn # "none") =>
        /\ (\A i \in DOMAIN norm_in.v : NoConfidenceField(norm_in.v[i])) =>
                norm_out = PyList(<<>>)
        /\ (\A i \in DOMAIN norm_in.v : NoLabelField(norm_in.v[i])) =>
                \A j \in DOMAIN norm_out.v :
                    norm_out.v[j].v["label"] = PyStr("table")

\* C18: a box given as {xmin, ymin, xmax, ymax} and the box given as
\* {x1, y1, x2, y2} with the same four values are both normalized to the list
\* [x1, y1, x2, y2] of those values, by _process_detection_results alone and
\* after the client's normalization.
C18_BoxAliasesAgree ==
    (norm_kind = "box" /\ norm_fn # "none") =>
        norm_out = PyList(<<PyDict([bounding_box |-> norm_in,
                                    confidence_score |-> PyNum(90),
                                    label |-> PyStr("table")])>>)

\* the box {xmin: 5, ymin: 60, xmax: 100, ymax: 60} has been normalized by
\* _process_detection_results
C18_Witness ==
    /\ norm_kind = "box" /\ Returned("_process_detection_results")
    /\ norm_shape = "xmin"
    /\ norm_in = BoxList(5, 60, 100, 60)
    /\ norm_out.v[1].v["bounding_box"] = BoxList(5, 60, 100, 60)

CanonicalKeys == {"rows", "columns", "cells"}
\* a dict that carries at least one of rows, columns and cells
IsCanonicalPayload(payload) ==
    IsDict(payload) /\ \E k \in CanonicalKeys : HasKey(payload, k)

\* C19 as stated: for every payload with some of the keys rows, columns and
\* cells, with or without other keys, _process_structure_results returns
\* rows, columns and cells equal to the input's.
C19_CanonicalRoundTrip_AsStated ==
    (norm_kind = "structure" /\ Returned("_process_structure_results")
        /\ IsCanonicalPayload(norm_in)) =>
            \A k \in CanonicalKeys :
                HasKey(norm_in, k) =>
                    /\ IsDict(norm_out) /\ HasKey(norm_out, k)
                    /\ norm_out.v[k] = norm_in.v[k]

\* C19: _process_structure_results returns a dict payload unchanged, and so
\* with rows, columns and cells equal to the input's, when the payload has a
\* 'rows' or a 'columns' key and neither a 'table' nor a 'data' key.
C19_CanonicalRoundTrip ==
    (norm_kind = "structure" /\ Returned("_process_structure_results")
        /\ IsDict(norm_in)
        /\ (HasKey(norm_in, "rows") \/ HasKey(norm_in, "columns"))
        /\ ~HasKey(norm_in, "table") /\ ~HasKey(norm_in, "data")) =>
            norm_out = norm_in

\* a payload with rows and a key the normalizer does not look at, and no
\* columns or cells, has come back unchanged
C19_Witness ==
    /\ norm_kind = "structure" /\ Returned("_process_structure_results")
    /\ norm_in = PyDict([rows |-> RowsA, score |-> PyNum(80)])
    /\ norm_out = norm_in

\* C20: _process_structure_results returns the value wrapped under 'table',
\* or under 'data' when there is no 'table', and for a non-empty list returns
\* what it returns for the first element alone.
C20_UnwrapAndFirstElement ==
    (norm_kind = "structure" /\ Returned("_process_structure_results")) =>
        /\ (IsDict(norm_in) /\ HasKey(norm_in, "table")) =>
                norm_out = norm_in.v["table"]
        /\ (IsDict(norm_in) /\ ~HasKey(norm_in, "table") /\ HasKey(norm_in, "data")) =>
                norm_out = norm_in.v["data"]
        /\ (IsList(norm_in) /\ Len(norm_in.v) > 0) =>
                norm_out = _process_structure_results(norm_in.v[1])

\* a list of two different payloads, the first one wrapping its structure
\* under 'table', has given the wrapped structure
C20_Witness ==
    /\ norm_kind = "structure" /\ Returned("_process_structure_results")
    /\ norm_in = PyList(<<PyDict([table |-> WrappedA]), WrappedB>>)
    /\ norm_out = WrappedA

\* a structure payload in none of the shapes _process_structure_results
\* looks for
UnrecognizedStructure(payload) ==
    \/ IsDict(payload) /\ \A k \in {"table", "data", "rows", "columns"} :
                              ~HasKey(payload, k)
    \/ IsList(payload) /\ Len(payload.v) = 0
    \/ ~IsDict(payload) /\ ~IsList(payload)

\* C21: for a payload of unrecognized shape _process_structure_results
\* returns a structure with no rows, no columns and no cells that carries a
\* note.
C21_UnrecognizedGivesEmptyStructure ==
    (norm_kind = "structure" /\ Returned("_process_structure_results")
        /\ UnrecognizedStructure(norm_in)) =>
            /\ IsDict(norm_out)
            /\ HasKey(norm_out, "note")
            /\ \A k \in CanonicalKeys :
                    Get(norm_out, k, PyList(<<>>)) = PyList(<<>>)

\* the cells of a table_data, and the (row, column) pair a cell names
CellsOf(table_data) == Get(table_data, "cells", PyList(<<>>)).v
CellKey(cell) == <<Get(cell, "row", PyNone), Get(cell, "column", PyNone)>>

\* C22: in the table_data of every emitted TableRecord no two cells name the
\* same (row, column) pair.
C22_NoDuplicateCells ==
    \A i \in DOMAIN Emitted :
        LET cells == CellsOf(Emitted[i].table_data)
        IN \A j, k \in DOMAIN cells :
                CellKey(cells[j]) = CellKey(cells[k]) => j = k

\* C23: the run fails only when rasterization gave no page (the document
\* did not open, had no page or none rendered); once there is a page the
\* run goes on, whatever the backends answer, until it returns its outcome.
C23_RunFailsOnlyWithoutPages ==
    /\ pc = "failed" => page_images = <<>>
    /\ pc = "done" => page_images # <<>>
    /\ pc \notin {"start", "failed", "done"} => (page_images # <<>> /\ ENABLED Next)

\* a two-page run has returned its outcome although detect_tables returned
\* absent on both pages
C23_Witness ==
    /\ pc = "done"
    /\ Len(page_images) = 2
    /\ Len(det_log) = 2
    /\ \A i \in 1..2 : DetectionAbsent(i)

\* the pages detect_tables has been called for and has returned, in call
\* order
DetectedPages == [i \in 1..Len(det_log) |-> det_log[i].page]

\* C24: detect_tables is called once for each rasterized page, in page
\* order, whatever happened on the pages before: the calls made so far are
\* those for the first pages of page_images, and at the end of the run
\* those for all of them.
C24_EveryPageDetectedOnceInOrder ==
    /\ Len(det_log) <= Len(page_images)
    /\ DetectedPages = SubSeq(page_images, 1, Len(det_log))
    /\ pc = "done" => DetectedPages = page_images
    /\ pc \in {"detect_call", "detect_ret"} => Len(det_log) = page_pos - 1
    /\ pc \in {"struct_call", "struct_ret"} => Len(det_log) = page_pos

\* without fallback the first page of two gave no record (its detection
\* call returned absent) and the second page gave one
C24_Witness ==
    /\ pc = "done"
    /\ ~use_fallback
    /\ Len(page_images) = 2
    /\ DetectionAbsent(1)
    /\ RecordsOfPage(page_images[1]) = <<>>
    /\ RecordsOfPage(page_images[2]) # <<>>

\* C25: when some of the document's page_count pages did not render and at
\* least one did, the outcome has total_pages equal to the document's page
\* count and pages_processed equal to the number of rendered pages, hence
\* pages_processed < total_pages.
C25_SkippedPagesShowInOutcome ==
    (pc = "done" /\ Len(page_images) < page_count) =>
        /\ total_pages = page_count
        /\ pages_processed = Len(page_images)
        /\ pages_processed < total_pages

\* C26: when every page of the document rendered, the outcome has
\* pages_processed = total_pages = the document's page count, with and
\* without fallback and whatever the backends answered.
C26_AllPagesRenderedAllProcessed ==
    (pc = "done" /\ Len(page_images) = page_count) =>
        /\ pages_processed = total_pages
        /\ total_pages = page_count

\* a two-page run without fallback in which no page gave a record
C26_Witness ==
    /\ pc = "done"
    /\ ~use_fallback
    /\ page_count = 2 /\ Len(page_images) = 2
    /\ all_tables = <<>>
    /\ pages_processed = 2

\* C27: the records are in processing order: page_number never decreases
\* along the sequence, the records of one page carry table_index 0, 1, ...
\* in that order, and the record at table_index k is the one made of the
\* detection at position k of the page's normalized detection list.
C27_TablesInProcessingOrder ==
    /\ \A i, j \in DOMAIN Emitted :
            i < j => Emitted[i].page_number <= Emitted[j].page_number
    /\ \A i \in DOMAIN Emitted :
            LET rs == RecordsOfPage(Emitted[i].page_number)
            IN \A k \in DOMAIN rs : rs[k].table_index = k - 1
    /\ \A i \in DOMAIN struct_log :
            LET rs == RecordsAt(struct_log[i].page, struct_log[i].index)
            IN /\ Len(rs) = 1
               /\ rs[1].bounding_box = struct_log[i].detection.v["bounding_box"]
               /\ rs[1].confidence_score = struct_log[i].detection.v["confidence_score"]

\* both pages of a run gave two records each, made of two different
\* detections
C27_Witness ==
    /\ pc = "done"
    /\ Len(page_images) = 2
    /\ Len(all_tables) = 4
    /\ all_tables[1].bounding_box # all_tables[2].bounding_box
    /\ all_tables[2].table_index = 1
    /\ all_tables[3].page_number = 2

\* C28: the (page_number, table_index) pairs of the records are pairwise
\* distinct, whether a record is a real table, a per-table fallback entry or
\* a per-page fallback table.
C28_PageAndIndexUnique ==
    \A i, j \in DOMAIN Emitted :
        (Emitted[i].page_number = Emitted[j].page_number
            /\ Emitted[i].table_index = Emitted[j].table_index) => i = j

\* an outcome that holds a per-page fallback table for one page and two
\* tables for the other
C28_Witness ==
    /\ pc = "done"
    /\ Len(all_tables) = 3
    /\ FallbackUsed(all_tables[1].table_data)
    /\ all_tables[2].page_number = all_tables[3].page_number
    /\ all_tables[2].table_index # all_tables[3].table_index

\* the requests the view has answered
Answered == {r \in ReqIds : req[r].pc = "done"}

C30_UnknownFileAnswered404 ==
    \A r \in Answered :
        db.file[req[r].file_id] = "none" =>
            /\ req[r].http = 404
            /\ db.analysis[req[r].file_id] = NoAnalysis
            /\ ~req[r].ran
\* the message of a Response has the text as one of its parts
Contains(message, text) == \E i \in DOMAIN message : message[i] = text

\* C31: with an empty HUGGINGFACE_API_KEY, analyze_file for an existing
\* uploaded file answers HTTP 500 with a message containing 'API key not
\* configured'.
C31_EmptyApiKeyAnswered500 ==
    \A r \in Answered :
        (settings.HUGGINGFACE_API_KEY = "" /\ db.file[req[r].file_id] # "none") =>
            /\ req[r].http = 500
            /\ Contains(req[r].message, "API key not configured")

\* the requests answered after extraction returned an outcome
AnsweredWithOutcome == {r \in Answered : req[r].ran /\ ~req[r].tables_data.raised}

\* the response, the stored AnalysisResult and the stored rows all count k
CompletedWith(r, k) ==
    /\ req[r].http = 200
    /\ req[r].status = "completed"
    /\ req[r].tables_found = k
    /\ db.analysis[req[r].file_id].tables_found = k
    /\ Len(db.tables[req[r].file_id]) = k

AnsweredAfterRaise == {r \in Answered : req[r].ran /\ req[r].tables_data.raised}

\* C35: when extraction raises and ENABLE_FALLBACK_TABLE_DETECTION is true,
\* the view stores exactly one fallback table (page 1, table_index 0), marks
\* the analysis and the file 'completed' and answers 200 with status
\* 'completed_with_fallback'.
C35_ExtractionErrorRunsViewFallback ==
    \A r \in AnsweredAfterRaise :
        settings.ENABLE_FALLBACK_TABLE_DETECTION =>
            /\ req[r].http = 200
            /\ req[r].status = "completed_with_fallback"
            /\ db.tables[req[r].file_id] = <<[page_number |-> 1, table_index |-> 0]>>
            /\ db.analysis[req[r].file_id].status = "completed"
            /\ db.file[req[r].file_id] = "completed"

\* C36: a request for a file whose analysis was 'processing' or 'completed'
\* when it arrived is answered 200 with status 'info' (with the stored
\* tables_found when completed), runs no extraction and leaves the
\* AnalysisResult as it found it.
C36_RepeatRequestAnsweredInfo ==
    \A r \in Answered :
        req[r].found \in {"processing", "completed"} =>
            /\ req[r].http = 200
            /\ req[r].status = "info"
            /\ ~req[r].ran
            /\ db.analysis[req[r].file_id].status = req[r].found
            /\ req[r].found = "completed" =>
                    req[r].tables_found = db.analysis[req[r].file_id].tables_found

\* the moves of an AnalysisResult's status; "none" is the row not existing
StatusMoves == {<<"none", "pending">>, <<"pending", "processing">>,
                <<"processing", "completed">>, <<"processing", "failed">>,
                <<"failed", "processing">>}

\* every change of a status in this step is one of StatusMoves
StatusMovesOnly ==
    \A f \in FileIds :
        db'.analysis[f].status # db.analysis[f].status =>
            <<db.analysis[f].status, db'.analysis[f].status>> \in StatusMoves

\* the file of every answered request has the status of its analysis
FileStatusFollowsAnalysis ==
    \A r \in Answered :
        db.analysis[req[r].file_id].status # "none" =>
            db.file[req[r].file_id] = db.analysis[req[r].file_id].status

\* C37: across any requests, the status of an AnalysisResult only moves pending -> processing -> completed or failed
\* and failed -> processing, never out of completed, and whenever the view
\* has answered, the file's analysis_status is the status of its analysis.
C37_StatusTransitions == []FileStatusFollowsAnalysis /\ [][StatusMovesOnly]_vars

\* C38: of two requests for the same file handled at the same time, at
\* most one runs extraction.
C38_OneExtractionPerFile ==
    \A r1, r2 \in ReqIds :
        (/\ r1 # r2
         /\ req[r1].file_id = req[r2].file_id
         /\ req[r1].pc \in {"save", "error"}
         /\ req[r2].pc \in {"save", "error"}) => FALSE
\* the names of UploadNames that end in .pdf, whatever the case
PdfNames == {<<"a", ".", "p", "d", "f">>, <<"A", ".", "P", "D", "F">>,
             <<"a", ".", "P", "d", "f">>, <<".", "p", "d", "f">>}

\* the upload answered last created a row with status 'pending' and was
\* answered 200 'uploaded'
UploadAccepted ==
    /\ up.http = 200
    /\ up.status = "uploaded"
    /\ up.file_id \notin {f \in DOMAIN up.before : up.before[f] # "none"}
    /\ up.file_id \in UploadedFiles
    /\ db.file[up.file_id] = "pending"
    /\ \A f \in DOMAIN up.before : db.file[f] = up.before[f]

\* the upload answered last left the UploadedFile rows as they were
UploadRowsUnchanged == db.file = up.before

\* C33 as stated: a file whose name ends in .pdf and whose size is at most
\* 10 MB is stored and answered 200 'uploaded'; every other request is
\* answered 400 and leaves the rows unchanged.
C33_UploadAcceptsPdfUpTo10MB_AsStated ==
    up.pc = "done" =>
        IF up.has_file /\ up.name \in PdfNames /\ up.size <= MaxUploadSize
        THEN UploadAccepted
        ELSE up.http = 400 /\ UploadRowsUnchanged

\* C33: a file that is not empty, whose name ends in .pdf and whose size is
\* at most 10 MB is stored and answered 200 'uploaded' when the storage and
\* the database take it, and answered 500 with the rows unchanged when they
\* do not; every other request (no file, non-PDF name, empty file,
\* oversize) is answered 400 and leaves the rows unchanged.
C33_UploadAcceptsPdfUpTo10MB ==
    up.pc = "done" =>
        IF /\ up.has_file
           /\ up.name \in PdfNames
           /\ up.size >= 1
           /\ up.size <= MaxUploadSize
        THEN IF up.stored THEN UploadAccepted
             ELSE up.http = 500 /\ UploadRowsUnchanged
        ELSE up.http = 400 /\ UploadRowsUnchanged

\* a file named A.PDF of exactly 10 MB has been stored
C33_Witness ==
    /\ up.pc = "done"
    /\ up.name = <<"A", ".", "P", "D", "F">>
    /\ up.size = MaxUploadSize
    /\ UploadAccepted
\* a capability call is between two requests
CallRunning == pc \in {"detect_call", "struct_call"}

\* the requests the running call can still send: the rest of the attempts
\* on this backend and max_retries on each backend after it
RequestsLeft ==
    max_retries * (Len(ModelsOfCall) - model_idx) + (max_retries - attempt)

\* the requests of the call so far are within the bounds
RequestsBounded ==
    (CallRunning \/ CallReturned) =>
        /\ cur.n <= max_retries
        /\ call_reqs <= max_retries * Len(ModelsOfCall)
        /\ pc \in {"detect_call", "detect_ret"} => call_reqs <= 9
        /\ pc \in {"struct_call", "struct_ret"} => call_reqs <= 6

\* a request either ends the call or leaves fewer requests to send
RequestUsesUp ==
    (CallRunning /\ call_reqs' = call_reqs + 1) =>
        /\ RequestsLeft > 0
        /\ CallReturned' \/ (CallRunning' /\ RequestsLeft' < RequestsLeft)

\* C34: a capability call returns after a bounded number of requests
\* whatever the backends answer: at most max_retries (3) per backend, so at
\* most 9 for detect_tables and 6 for recognize_table_structure.
C34_CallsSendBoundedRequests == []RequestsBounded /\ [][RequestUsesUp]_vars

\* detect_tables has returned after 9 requests
C34_Witness == pc = "detect_ret" /\ call_reqs = 9
\* C39: with fallback enabled, every rasterized page has at least one
\* TableRecord once it is processed, so a finished run has at least one
\* table, whatever the detection and structure backends answer.
C39_EveryPageHasARecord ==
    use_fallback =>
        /\ \A i \in 1..Len(page_images) :
                PageDone(i) => Len(RecordsOfPage(page_images[i])) >= 1
        /\ pc = "done" => Len(all_tables) >= Len(page_images) /\ all_tables # <<>>

\* a run of two pages, no detection backend answering for the first and
\* none of the detections of the second passing the threshold
C39_Witness ==
    /\ use_fallback
    /\ pc = "done"
    /\ Len(det_log) = 2
    /\ DetectionAbsent(1)
    /\ DetectionEmpty(2)
    /\ Len(all_tables) = 2
\* the row_id values of rows and the column_id values of columns
RowIdsOf(structure) ==
    LET rows == Get(structure, "rows", PyList(<<>>)).v
    IN {Get(rows[i], "row_id", PyNone) : i \in DOMAIN rows}
ColumnIdsOf(structure) ==
    LET columns == Get(structure, "columns", PyList(<<>>)).v
    IN {Get(columns[i], "column_id", PyNone) : i \in DOMAIN columns}

\* C40: in every structure recognize_table_structure returns, each cell's
\* row is the row_id of an entry of rows and each cell's column is the
\* column_id of an entry of columns.
C40_StructureInternallyConsistent ==
    (pc = "struct_ret" /\ client_exc = "none" /\ IsDict(ret)) =>
        \A i \in DOMAIN CellsOf(ret) :
            /\ Get(CellsOf(ret)[i], "row", PyNone) \in RowIdsOf(ret)
            /\ Get(CellsOf(ret)[i], "column", PyNone) \in ColumnIdsOf(ret)
====
